---- MODULE Spec2Model ----
(***************************************************************************)
(* Model of the compliance analysis engine of presentation-analyzer:       *)
(* PresentationAnalyzer.parse_slides_range, analyze_selected_slides,       *)
(* analyze_slide, check_images_enhanced, analyze_fonts and                 *)
(* calculate_conformance_percentage (src/utils/analyzer.py), and the       *)
(* caller in src/streamlit_app.py.                                         *)
(*                                                                         *)
(* A Python str is a sequence of one-character strings.  The character     *)
(* "sup2" stands for U+00B2 (superscript two): str.isdigit() accepts it    *)
(* and int() rejects it with ValueError.  None is the sequence NoneValue.  *)
(***************************************************************************)
EXTENDS Integers, Sequences, FiniteSets, TLC

VARIABLES
    p_range,                \* parse_slides_range: the argument slides_range
    p_total,                \* parse_slides_range: the argument total_slides
    p_out,                  \* parse_slides_range: the returned list
    p_done,                 \* parse_slides_range has returned
    deck,                   \* the slides of the document at pptx_path
    results,                \* PresentationAnalyzer.results
    used_fonts,             \* PresentationAnalyzer.used_fonts
    selected_slides_range,  \* PresentationAnalyzer.selected_slides_range
    full_ocr_texts,         \* PresentationAnalyzer.full_ocr_texts
    calls,                  \* analyze_selected_slides calls made so far
    ret_rows,               \* the caller's results: first value last returned
    ret_stats,              \* the caller's presentation_stats: second value
    last_range,             \* the slides_range argument of the last call
    report,                 \* the caller's conformance_info
    scored_args,            \* the arguments of the scorer call that gave report
    call_raised,            \* the caller's last call ended in an exception
    TESSERACT_AVAILABLE,    \* the module's flag: pytesseract was imported
    img_slide,              \* check_images_enhanced: the argument slide
    img_out                 \* check_images_enhanced: what the call returned

parse_vars == <<p_range, p_total, p_out, p_done>>
analyzer_vars == <<results, used_fonts, selected_slides_range, full_ocr_texts>>
caller_vars == <<ret_rows, ret_stats, last_range, report, scored_args, call_raised>>
image_vars == <<img_slide, img_out>>
vars == <<parse_vars, deck, analyzer_vars, calls, caller_vars, TESSERACT_AVAILABLE, image_vars>>

----------------------------------------------------------------------------
(* Bounds *)

MaxLen == 5        \* longest enumerated selection string
MaxTotal == 3      \* largest enumerated total_slides
MaxSlides == 2     \* largest deck of which every make-up is enumerated
MaxCalls == 2      \* analyze_selected_slides calls in a behaviour
MaxRows == 2       \* most slides of a document that is edited and scored
MaxFonts == 4      \* most fonts that are no system fonts in such a document

----------------------------------------------------------------------------
(* Python str helpers *)

NoneValue == <<"None">>

DigitChars == {"0", "1", "2", "3", "4", "5", "6", "7", "8", "9"}

DigitVal(c) ==
    CASE c = "0" -> 0 [] c = "1" -> 1 [] c = "2" -> 2 [] c = "3" -> 3
      [] c = "4" -> 4 [] c = "5" -> 5 [] c = "6" -> 6 [] c = "7" -> 7
      [] c = "8" -> 8 [] c = "9" -> 9

\* str.isdigit(): non-empty and every character is a digit character;
\* U+00B2 is a digit character for isdigit().
isdigit(s) ==
    /\ Len(s) > 0
    /\ \A i \in 1..Len(s) : s[i] \in DigitChars \cup {"sup2"}

\* int(s) raises ValueError on a string isdigit() accepts
IntRaises(s) == \E i \in 1..Len(s) : s[i] \notin DigitChars

RECURSIVE int(_)
int(s) ==
    IF Len(s) = 0 THEN 0
    ELSE 10 * int(SubSeq(s, 1, Len(s) - 1)) + DigitVal(s[Len(s)])

LowerCh(c) ==
    CASE c = "A" -> "a" [] c = "L" -> "l" [] c = "B" -> "b" [] c = "C" -> "c"
      [] c = "D" -> "d" [] c = "E" -> "e" [] c = "F" -> "f" [] OTHER -> c

lower(s) == [i \in 1..Len(s) |-> LowerCh(s[i])]

\* str.strip(): drop leading and trailing whitespace
RECURSIVE lstrip(_)
lstrip(s) ==
    IF Len(s) > 0 /\ s[1] = " " THEN lstrip(Tail(s)) ELSE s

RECURSIVE rstrip(_)
rstrip(s) ==
    IF Len(s) > 0 /\ s[Len(s)] = " " THEN rstrip(SubSeq(s, 1, Len(s) - 1)) ELSE s

strip(s) == rstrip(lstrip(s))

\* str.replace(' ', '')
replace_spaces(s) == SelectSeq(s, LAMBDA c : c # " ")

Contains(s, c) == \E i \in 1..Len(s) : s[i] = c

\* str.split(sep): the pieces between separators, empty pieces included
split(s, sep) ==
    LET RECURSIVE go(_, _, _)
        go(i, cur, acc) ==
            IF i > Len(s) THEN Append(acc, cur)
            ELSE IF s[i] = sep THEN go(i + 1, <<>>, Append(acc, cur))
            ELSE go(i + 1, Append(cur, s[i]), acc)
    IN go(1, <<>>, <<>>)

\* list(range(a, b + 1))
Range(a, b) == [i \in 1..(IF b >= a THEN b - a + 1 ELSE 0) |-> a + i - 1]

Min(a, b) == IF a <= b THEN a ELSE b

SeqToSet(s) == {s[i] : i \in 1..Len(s)}

\* sorted(set(xs))
RECURSIVE SortedOfSet(_)
SortedOfSet(S) ==
    IF S = {} THEN <<>>
    ELSE LET m == CHOOSE x \in S : \A y \in S : x <= y
         IN <<m>> \o SortedOfSet(S \ {m})

sorted_set(xs) == SortedOfSet(SeqToSet(xs))

----------------------------------------------------------------------------
(* PresentationAnalyzer.parse_slides_range *)

\* line 413 without min(end, total_slides)
PartSlides_Unclamped(part, total_slides) ==
    IF Contains(part, "-")
    THEN LET range_parts == split(part, "-")
         IN IF Len(range_parts) = 2 /\ isdigit(range_parts[1]) /\ isdigit(range_parts[2])
            THEN Range(int(range_parts[1]), int(range_parts[2]))
            ELSE <<>>
    ELSE IF isdigit(part)
         THEN IF 1 <= int(part) /\ int(part) <= total_slides THEN <<int(part)>> ELSE <<>>
         ELSE <<>>

\* one element of a comma-separated list, or a lone a-b range: what lines
\* 407-418 and 422-426 add to slides_to_analyze
PartSlides(part, total_slides) ==
    IF Contains(part, "-")
    THEN LET range_parts == split(part, "-")
         IN IF Len(range_parts) = 2 /\ isdigit(range_parts[1]) /\ isdigit(range_parts[2])
            THEN Range(int(range_parts[1]), Min(int(range_parts[2]), total_slides))
            ELSE <<>>
    ELSE IF isdigit(part)
         THEN IF 1 <= int(part) /\ int(part) <= total_slides THEN <<int(part)>> ELSE <<>>
         ELSE <<>>

\* the loop body reaches an int() call that raises
PartRaises(part) ==
    IF Contains(part, "-")
    THEN LET range_parts == split(part, "-")
         IN /\ Len(range_parts) = 2
            /\ isdigit(range_parts[1]) /\ isdigit(range_parts[2])
            /\ (IntRaises(range_parts[1]) \/ IntRaises(range_parts[2]))
    ELSE isdigit(part) /\ IntRaises(part)

RECURSIVE ExtendAll(_, _)
ExtendAll(parts, total_slides) ==
    IF Len(parts) = 0 THEN <<>>
    ELSE PartSlides(Head(parts), total_slides) \o ExtendAll(Tail(parts), total_slides)

\* lines 431-434 with the dead check removed: an empty list is returned as is
FallbackIfEmpty_Missing(slides_to_analyze, total_slides) ==
    [slides |-> slides_to_analyze, field |-> "keep"]

\* lines 431-434: an empty resolved list becomes the full range and the
\* analyzer's field is set to 'all'
FallbackIfEmpty(slides_to_analyze, total_slides) ==
    IF slides_to_analyze = <<>>
    THEN [slides |-> Range(1, total_slides), field |-> "all"]
    ELSE [slides |-> slides_to_analyze, field |-> "keep"]

\* The value returned and the value left in self.selected_slides_range;
\* field = "keep" when the method does not assign the field.
parse_slides_range(slides_range, total_slides) ==
    LET all_slides == Range(1, total_slides)
        fallback == [slides |-> all_slides, field |-> "all"]
    IN
    IF slides_range = <<>> \/ slides_range = NoneValue
          \/ lower(slides_range) = <<"a", "l", "l">>
    THEN [slides |-> all_slides, field |-> "keep"]
    ELSE LET stripped == strip(slides_range) IN
    IF isdigit(stripped)
    THEN IF IntRaises(stripped) THEN fallback
         ELSE IF 1 <= int(stripped) /\ int(stripped) <= total_slides
              THEN [slides |-> <<int(stripped)>>, field |-> "keep"]
              ELSE [slides |-> <<>>, field |-> "keep"]
    ELSE LET nospace == replace_spaces(stripped)
             parts == split(nospace, IF Contains(nospace, ",") THEN "," ELSE "-")
             raised ==
                 IF Contains(nospace, ",")
                 THEN \E k \in 1..Len(parts) : PartRaises(parts[k])
                 ELSE Contains(nospace, "-") /\ PartRaises(nospace)
             collected ==
                 IF Contains(nospace, ",") THEN ExtendAll(parts, total_slides)
                 ELSE IF Contains(nospace, "-") THEN PartSlides(nospace, total_slides)
                 ELSE <<>>
             slides_to_analyze == sorted_set(collected)
         IN IF raised THEN fallback
            ELSE FallbackIfEmpty(slides_to_analyze, total_slides)

----------------------------------------------------------------------------
(* The document: what the inspectors of analyze_slide find on each slide *)

\* the row markers; the source's strings are not ASCII
CheckMark == "ok"       \* the check mark of a passed criterion
CrossMark == "fail"     \* the cross of a failed criterion
Da == "Da"              \* text on an image: yes
Net == "Net"            \* text on an image: no
StatusOK == "OK"

AllRange == <<"a", "l", "l">>       \* the str 'all'

RECURSIVE GCD(_, _)
GCD(a, b) == IF b = 0 THEN a ELSE GCD(b, a % b)

\* the float num / den of two naturals, in lowest terms
Quotient(num, den) ==
    LET g == GCD(num, den) IN [num |-> num \div g, den |-> den \div g]

\* ocr_data without a text: the {} of line 840 and the None of line 892
NoOcr ==
    [text_len |-> 0, confidence |-> Quotient(0, 1), method |-> "", images_with_text |-> 0]

\* settings['min_text_length_for_ocr'], settings['ocr_alternate_min_confidence']
min_text_length_for_ocr == 3
ocr_alternate_min_confidence == 35

\* settings['max_text_chars'], settings['max_ocr_text_length']
max_text_chars == 1000
max_ocr_text_length == 5000

\* font names that contain an entry of system_fonts, among those the decks use
SystemFontNames == {"Arial", "Calibri Light"}

\* what the OCR passes of try_multiple_ocr_methods find in a picture: the
\* length, average confidence and method of the best pass, and whether
\* is_meaningful_text accepts its text
NoBestText == [text_len |-> 0, confidence |-> 0, method |-> "", meaningful |-> FALSE]

ReadableText(text_len, confidence, method) ==
    [text_len |-> text_len, confidence |-> confidence, method |-> method,
     meaningful |-> TRUE]

\* a text as its runs: len whitespace characters, or len other characters
Blank(len) == [space |-> TRUE, len |-> len]
Letters(len) == [space |-> FALSE, len |-> len]

\* len(text)
RECURSIVE text_len(_)
text_len(text) ==
    IF text = <<>> THEN 0 ELSE Head(text).len + text_len(Tail(text))

\* text.strip()
RECURSIVE text_lstrip(_)
text_lstrip(text) ==
    IF text # <<>> /\ Head(text).space THEN text_lstrip(Tail(text)) ELSE text

RECURSIVE text_rstrip(_)
text_rstrip(text) ==
    IF text # <<>> /\ text[Len(text)].space
    THEN text_rstrip(SubSeq(text, 1, Len(text) - 1)) ELSE text

text_strip(text) == text_rstrip(text_lstrip(text))

\* re.sub(r'\s+', ' ', text): one space for every stretch of whitespace
RECURSIVE sub_whitespace(_)
sub_whitespace(text) ==
    IF text = <<>> THEN <<>>
    ELSE IF Head(text).space
         THEN <<Blank(1)>> \o sub_whitespace(text_lstrip(text))
         ELSE <<Head(text)>> \o sub_whitespace(Tail(text))

\* a shape with an image, and a shape with a text frame whose text is
\* char_count characters that are no whitespace
Picture(left, top, width, height, ocr) ==
    [left |-> left, top |-> top, width |-> width, height |-> height, ocr |-> ocr]

TextShape(left, top, width, height, char_count) ==
    [left |-> left, top |-> top, width |-> width, height |-> height,
     text |-> <<Letters(char_count)>>]

\* colours as (r, g, b)
White == <<255, 255, 255>>
Blue == <<0, 0, 255>>

\* a fill as check_background_comprehensive reads it: fill.type (1 is a solid
\* fill, 3 a gradient, 5 no fill; 0 is the value line 750 lets through) and
\* fill.fore_color.rgb; raises says that reading it raises
Fill(type, rgb) == [type |-> type, rgb |-> rgb, raises |-> FALSE]

UnreadableFill == [type |-> 1, rgb |-> White, raises |-> TRUE]

\* a shape that has a fill and no text
AutoShape(left, top, width, height, fill) ==
    [left |-> left, top |-> top, width |-> width, height |-> height, fill |-> fill]

\* the colour tokens of slide.element.xml: the characters after a '#', and
\* the numbers of an rgb(r, g, b)
HexToken(digits) == [kind |-> "hex", digits |-> digits]

RgbToken(r, g, b) == [kind |-> "rgb", r |-> r, g |-> g, b |-> b]


\* a conforming slide
ConformingSlide ==
    [background |-> Fill(1, White), autoshapes |-> <<>>, markup |-> <<>>, faults |-> {},
     animated |-> FALSE, transition |-> FALSE,
     pictures |-> <<>>,
     text_shapes |-> <<TextShape(0, 0, 400, 100, 20), TextShape(0, 100, 400, 200, 100)>>,
     shapes |-> 2, fonts |-> {"Arial"}]

\* a coloured background, a picture, text at the limit
ColouredSlide ==
    [background |-> Fill(1, Blue), autoshapes |-> <<>>, markup |-> <<>>, faults |-> {},
     animated |-> FALSE, transition |-> FALSE,
     pictures |-> <<Picture(0, 0, 100, 100, NoBestText)>>,
     text_shapes |-> <<TextShape(200, 0, 200, 100, 40), TextShape(200, 100, 200, 200, 960)>>,
     shapes |-> 3, fonts |-> {"Roboto", "Lato"}]

\* too much text, animated, with a transition
CrowdedSlide ==
    [background |-> Fill(1, White), autoshapes |-> <<>>, markup |-> <<>>, faults |-> {},
     animated |-> TRUE, transition |-> TRUE,
     pictures |-> <<>>,
     text_shapes |-> <<TextShape(0, 0, 400, 300, 1500)>>,
     shapes |-> 4, fonts |-> {"Oswald", "Calibri Light"}]

\* text that OCR reads on two of three images
ScannedSlide ==
    [background |-> Fill(1, White), autoshapes |-> <<>>, markup |-> <<>>, faults |-> {},
     animated |-> FALSE, transition |-> FALSE,
     pictures |-> <<Picture(0, 0, 100, 100, ReadableText(2959, 70, "Tesseract_PSM3_rus+eng")),
                    Picture(100, 0, 100, 100, NoBestText),
                    Picture(200, 0, 100, 100, ReadableText(2959, 72, "Tesseract_PSM6_rus+eng"))>>,
     text_shapes |-> <<>>,
     shapes |-> 3, fonts |-> {"Montserrat"}]

SlideKinds == {ConformingSlide, ColouredSlide, CrowdedSlide, ScannedSlide}

RECURSIVE DecksOfLen(_)
DecksOfLen(n) ==
    IF n = 0 THEN {<<>>}
    ELSE {Append(d, k) : d \in DecksOfLen(n - 1), k \in SlideKinds}

\* a document that Presentation(pptx_path) cannot open
Unopenable == <<[unopenable |-> TRUE]>>

\* a slide whose shape tree cannot be read: slide.shapes raises
BrokenSlide == [broken |-> TRUE, transition |-> FALSE]

IsBroken(slide) == "broken" \in DOMAIN slide

\* documents on which a step of the run fails
FailingDocuments ==
    { Unopenable, <<BrokenSlide>>, <<ColouredSlide, BrokenSlide>>,
      <<BrokenSlide, ColouredSlide>> }

\* documents of three slides: one background violation and one slide with
\* too much text; three fonts that are no system fonts
LongerDocuments ==
    { <<ConformingSlide, ColouredSlide, CrowdedSlide>>,
      <<ColouredSlide, ScannedSlide, ConformingSlide>> }

Decks ==
    UNION {DecksOfLen(n) : n \in 0..MaxSlides} \cup FailingDocuments \cup LongerDocuments

\* prs.slides[i - 1]: a Python index of -1 is the last slide
SlideAt(d, i) == IF i = 0 THEN d[Len(d)] ELSE d[i]

----------------------------------------------------------------------------
(* The inspectors, as far as analyze_slide depends on them *)

\* settings['min_image_area_percentage'], in hundredths
min_image_area_percentage == 70

\* lines 755-757: a slide has no width or height of its own, so the area is
\* that of Inches(10) by Inches(7.5); 400 by 300 in the units of the shapes
slide_area == 400 * 300

HexDigits == {"0", "1", "2", "3", "4", "5", "6", "7", "8", "9", "a", "b", "c", "d", "e", "f"}

\* lines 742-749 and 763-770: a solid fill whose colour is not white
solid_non_white(fill) == fill.type = 1 /\ fill.rgb # White

\* lines 740-751: the fill of the slide background; a fill that is neither
\* solid nor of type 0 fails as well
background_fill_fails(slide) ==
    IF slide.background.type = 1 THEN solid_non_white(slide.background)
    ELSE slide.background.type # 0

\* lines 753-775: a filled shape larger than the share of the slide; a shape
\* that raises is skipped, and slide.shapes raising ends the check
large_shape_fails(slide) ==
    /\ ~("shapes" \in slide.faults)
    /\ \E i \in 1..Len(slide.autoshapes) :
           LET shape == slide.autoshapes[i]
               shape_area == shape.width * shape.height
           IN /\ shape_area * 100 > slide_area * min_image_area_percentage
              /\ ~shape.fill.raises
              /\ solid_non_white(shape.fill)

\* lines 782-786: re.findall of #[0-9a-f]{6} takes the first six characters
\* after the '#' when they are hexadecimal digits
hex_match(token) ==
    LET digits == lower(token.digits)
    IN IF Len(digits) >= 6 /\ \A i \in 1..6 : digits[i] \in HexDigits
       THEN <<SubSeq(digits, 1, 6)>> ELSE <<>>

\* lines 778-794: the colour tokens of the markup
markup_fails(slide) ==
    /\ ~("xml" \in slide.faults)
    /\ \E i \in 1..Len(slide.markup) :
           LET token == slide.markup[i]
           IN IF token.kind = "hex"
              THEN \E m \in SeqToSet(hex_match(token)) : m # <<"f", "f", "f", "f", "f", "f">>
              ELSE token.r # 255 \/ token.g # 255 \/ token.b # 255

\* lines 738-799; what raises while the background fill is read reaches the
\* handler of line 798
check_background_comprehensive(slide) ==
    IF "background" \in slide.faults THEN FALSE
    ELSE ~(background_fill_fails(slide) \/ large_shape_fails(slide) \/ markup_fails(slide))

\* the length of the text as it stands
clean_text_len_Uncollapsed(text) == text_len(text)

\* line 808: the length of the text of a shape with the whitespace
\* collapsed
clean_text_len(text) == text_len(sub_whitespace(text))

\* lines 804-809: a shape counts when its text is not empty and the
\* stripped text is longer than one character
RECURSIVE total_chars_of(_)
total_chars_of(shapes) ==
    IF shapes = <<>> THEN 0
    ELSE LET text == text_strip(Head(shapes).text)
         IN (IF Head(shapes).text # <<>> /\ text # <<>> /\ text_len(text) > 1
             THEN clean_text_len(text) ELSE 0)
            + total_chars_of(Tail(shapes))

\* lines 801-814; whatever raises gives (False, 0)
check_text_improved(slide) ==
    IF "shapes" \in slide.faults THEN [text_overload |-> FALSE, char_count |-> 0]
    ELSE LET total_chars == total_chars_of(slide.text_shapes)
         IN [text_overload |-> total_chars > max_text_chars, char_count |-> total_chars]

check_animations_improved(slide) == slide.animated

\* lines 856-863: the dict of an image; it has no 'left', 'top', 'right' or
\* 'bottom'
img_info_of(shape, index) ==
    [shape |-> shape, index |-> index, width |-> shape.width, height |-> shape.height]

\* lines 872-883: the dict of a shape with text
text_shape_info_of(shape) ==
    [shape |-> shape, left |-> shape.left, top |-> shape.top,
     width |-> shape.width, height |-> shape.height,
     right |-> shape.left + shape.width, bottom |-> shape.top + shape.height,
     char_count |-> text_len(text_strip(shape.text))]

\* shapes_overlap_improved: a key that one of the dicts lacks raises KeyError
\* inside the try, and the handler returns False
shapes_overlap_improved(shape1, shape2) ==
    IF ~({"right", "left", "bottom", "top"} \subseteq (DOMAIN shape1 \cap DOMAIN shape2))
    THEN FALSE
    ELSE LET overlap_x == ~(shape1.right <= shape2.left \/ shape1.left >= shape2.right)
             overlap_y == ~(shape1.bottom <= shape2.top \/ shape1.top >= shape2.bottom)
         IN overlap_x /\ overlap_y

\* try_multiple_ocr_methods, lines 1038-1041: the best pass, if it has a text
\* and a confidence above the floor
try_multiple_ocr_methods(shape) ==
    IF shape.ocr.text_len > 0 /\ shape.ocr.confidence > ocr_alternate_min_confidence
    THEN shape.ocr
    ELSE NoBestText

\* check_images_with_multiple_ocr_methods: the images handed to the OCR
\* passes, and per image what came back
ocr_candidates(image_info) ==
    {k \in 1..Len(image_info) :
        ~(image_info[k].shape.width < 50 \/ image_info[k].shape.height < 50)}

check_images_with_multiple_ocr_methods(image_info) ==
    [k \in 1..Len(image_info) |->
        IF k \in ocr_candidates(image_info)
        THEN try_multiple_ocr_methods(image_info[k].shape)
        ELSE NoBestText]

\* len(str(n)) of a natural number
RECURSIVE DigitCount(_)
DigitCount(n) == IF n < 10 THEN 1 ELSE 1 + DigitCount(n \div 10)

\* the length of the divider of lines 923-925 before the text of an image
divider_len(img, first) ==
    (IF first THEN 0 ELSE 2) + 33
    + DigitCount(img.index) + DigitCount(img.width) + DigitCount(img.height)

\* the method of the later image on a tie
next_best_method_LastOnTie(found, acc) ==
    IF found.confidence >= acc.best_confidence THEN found.method ELSE acc.best_method

\* lines 933-935: the method of the image with the highest confidence so far
next_best_method(found, acc) ==
    IF found.confidence > acc.best_confidence THEN found.method ELSE acc.best_method

\* the loop of lines 919-935 over the first n results; parts are the images
\* whose texts make up combined_text, in the order they were added
RECURSIVE merge_ocr_results(_, _, _)
merge_ocr_results(image_info, ocr_results, n) ==
    IF n = 0
    THEN [text_len |-> 0, total_confidence |-> 0, images_with_text |-> 0,
          best_method |-> "", best_confidence |-> 0, parts |-> <<>>]
    ELSE LET acc == merge_ocr_results(image_info, ocr_results, n - 1)
             found == ocr_results[n]
         IN IF found.text_len > 0 /\ found.meaningful
               /\ found.confidence > ocr_alternate_min_confidence
            THEN [text_len |-> acc.text_len
                                + divider_len(image_info[n], acc.text_len = 0)
                                + found.text_len,
                  total_confidence |-> acc.total_confidence + found.confidence,
                  images_with_text |-> acc.images_with_text + 1,
                  best_method |-> next_best_method(found, acc),
                  best_confidence |-> IF found.confidence > acc.best_confidence
                                      THEN found.confidence ELSE acc.best_confidence,
                  parts |-> Append(acc.parts, n)]
            ELSE acc

\* check_images_enhanced: the verdict, the image count, ocr_data, the images
\* on which the OCR passes ran, and the images whose texts are in the text
\* of ocr_data, in the order of the text
check_images_enhanced(slide) ==
    LET image_info == [k \in 1..Len(slide.pictures) |-> img_info_of(slide.pictures[k], k)]
        with_text == SelectSeq(slide.text_shapes,
                               LAMBDA shape : text_strip(shape.text) # <<>>)
        text_shapes == [k \in 1..Len(with_text) |-> text_shape_info_of(with_text[k])]
        geometric == \E t \in 1..Len(text_shapes) :
                        /\ ~(text_shapes[t].char_count < min_text_length_for_ocr)
                        /\ \E i \in 1..Len(image_info) :
                               shapes_overlap_improved(text_shapes[t], image_info[i])
        ocr_runs == TESSERACT_AVAILABLE /\ Len(image_info) > 0
        merged == merge_ocr_results(image_info,
                                    check_images_with_multiple_ocr_methods(image_info),
                                    Len(image_info))
        combined == ocr_runs /\ merged.text_len > 0
    IN IF image_info = <<>>
       THEN [has_text_on_images |-> FALSE, image_count |-> 0, ocr_data |-> NoOcr,
             ocr_on |-> {}, ocr_parts |-> <<>>]
       ELSE [has_text_on_images |-> geometric \/ combined,
             image_count |-> Len(image_info),
             ocr_data |-> IF combined
                          THEN [text_len |-> merged.text_len,
                                confidence |-> Quotient(merged.total_confidence,
                                                        merged.images_with_text),
                                method |-> IF merged.best_method # ""
                                           THEN merged.best_method ELSE "multiple",
                                images_with_text |-> merged.images_with_text]
                          ELSE NoOcr,
             ocr_on |-> IF ocr_runs THEN ocr_candidates(image_info) ELSE {},
             ocr_parts |-> IF combined THEN merged.parts ELSE <<>>]

collect_fonts(fonts, slide) == fonts \cup slide.fonts

\* the marker of the first slide alone
check_presentation_transitions_FirstSlide(d) == Len(d) > 0 /\ d[1].transition

check_presentation_transitions(d) == \E i \in 1..Len(d) : d[i].transition

\* ', '.join(tags)
RECURSIVE join(_)
join(tags) ==
    IF Len(tags) = 0 THEN ""
    ELSE IF Len(tags) = 1 THEN tags[1]
    ELSE tags[1] \o ", " \o join(Tail(tags))

\* PresentationAnalyzer.analyze_slide: the row of one slide
analyze_slide(slide, slide_num) ==
    LET background_ok == check_background_comprehensive(slide)
        text == check_text_improved(slide)
        animated == check_animations_improved(slide)
        img == check_images_enhanced(slide)
        has_ocr == img.ocr_data.text_len > 0
        violations ==
            (IF ~background_ok THEN <<"FON">> ELSE <<>>)
            \o (IF text.text_overload
                THEN <<"TEKST(" \o ToString(text.char_count) \o ")">> ELSE <<>>)
            \o (IF animated THEN <<"ANIMACII">> ELSE <<>>)
            \o (IF img.has_text_on_images THEN <<"TEKST_NA_IZOBR">> ELSE <<>>)
    IN [Slide |-> slide_num,
        Status |-> IF violations # <<>> THEN join(violations) ELSE StatusOK,
        Violations |-> violations,
        Fonts |-> CheckMark,
        Text |-> IF text.text_overload THEN CrossMark ELSE CheckMark,
        Animations |-> IF animated THEN CrossMark ELSE CheckMark,
        Transitions |-> CheckMark,
        Background |-> IF background_ok THEN CheckMark ELSE CrossMark,
        Images |-> img.image_count,
        TextOnImage |-> IF img.has_text_on_images THEN Da ELSE Net,
        TextDet |-> ToString(text.char_count) \o " simv.",
        Elements |-> slide.shapes,
        OCR_text_len |-> IF has_ocr THEN Min(img.ocr_data.text_len, max_ocr_text_length) ELSE 0,
        OCR_confidence |-> IF has_ocr THEN img.ocr_data.confidence ELSE Quotient(0, 1),
        OCR_method |-> IF has_ocr THEN img.ocr_data.method ELSE "",
        OCR_images_with_text |-> IF has_ocr THEN img.ocr_data.images_with_text ELSE 0]

\* analyze_fonts, lines 1206-1225: the fonts that match no system font
filtered_fonts(fonts) == {f \in fonts : f \notin SystemFontNames}

\* lines 1228-1232 without the refresh of the status on line 1232
patch_row_StaleStatus(result, font_count) ==
    IF font_count > 2
    THEN IF "SHRIFTY" \notin SeqToSet(result.Violations)
         THEN [result EXCEPT !.Fonts = CrossMark,
                  !.Violations = Append(@, "SHRIFTY(" \o ToString(font_count) \o ")")]
         ELSE [result EXCEPT !.Fonts = CrossMark]
    ELSE result

\* analyze_fonts, lines 1228-1232: the font patch of one row
patch_row(result, font_count) ==
    IF font_count > 2
    THEN IF "SHRIFTY" \notin SeqToSet(result.Violations)
         THEN LET violations == Append(result.Violations,
                                       "SHRIFTY(" \o ToString(font_count) \o ")")
              IN [result EXCEPT !.Fonts = CrossMark,
                                !.Violations = violations,
                                !.Status = join(violations)]
         ELSE [result EXCEPT !.Fonts = CrossMark]
    ELSE result

\* PresentationAnalyzer.analyze_fonts over self.results
analyze_fonts(rows, fonts) ==
    LET font_count == Cardinality(filtered_fonts(fonts))
    IN [i \in 1..Len(rows) |-> patch_row(rows[i], font_count)]

\* save_full_ocr_results: slide number -> the OCR payload of its row
save_full_ocr_results(texts, rows) ==
    LET with_text == {i \in 1..Len(rows) : rows[i].OCR_text_len > 0}
        nums == {rows[i].Slide : i \in with_text}
        last(n) == CHOOSE i \in with_text :
                       rows[i].Slide = n /\ \A j \in with_text : rows[j].Slide = n => j <= i
    IN [n \in (DOMAIN texts) \cup nums |->
           IF n \in nums
           THEN [text_len |-> rows[last(n)].OCR_text_len,
                 confidence |-> rows[last(n)].OCR_confidence,
                 method |-> rows[last(n)].OCR_method,
                 image_count |-> rows[last(n)].Images,
                 images_with_text |-> rows[last(n)].OCR_images_with_text]
           ELSE texts[n]]

\* the number of rows whose verdict in the column is the mark
Count(rows, column, mark) == Cardinality({i \in 1..Len(rows) : rows[i][column] = mark})

RECURSIVE SumImages(_)
SumImages(rows) ==
    IF Len(rows) = 0 THEN 0
    ELSE (IF Head(rows).Images > 0 THEN Head(rows).Images ELSE 0) + SumImages(Tail(rows))

RECURSIVE SumOcr(_)
SumOcr(rows) ==
    IF Len(rows) = 0 THEN 0 ELSE Head(rows).OCR_text_len + SumOcr(Tail(rows))

\* the return value [], {}
EmptyStats == [empty |-> TRUE]

\* analyze_selected_slides, lines 118-157: presentation_stats of a run whose
\* rows are new_rows
presentation_stats_of(new_rows, slides_range, d, fonts) ==
    [has_animations |-> \E i \in 1..Len(new_rows) : new_rows[i].Animations = CrossMark,
     has_transitions |-> check_presentation_transitions(d),
     fonts_count |-> Cardinality(fonts),
     background_issues |-> Count(new_rows, "Background", CrossMark),
     text_on_images |-> Count(new_rows, "TextOnImage", Da),
     total_images |-> SumImages(new_rows),
     ocr_used |-> \E i \in 1..Len(new_rows) : new_rows[i].OCR_text_len > 0,
     ocr_text_found |-> Count(new_rows, "TextOnImage", Da),
     total_ocr_characters |-> SumOcr(new_rows),
     selected_slides_count |-> Len(new_rows),
     selected_slides_range |-> slides_range,
     total_slides_in_presentation |-> Len(d)]

RECURSIVE FontsOf(_, _)
FontsOf(d, slides) ==
    IF Len(slides) = 0 THEN {}
    ELSE collect_fonts(FontsOf(d, Tail(slides)), SlideAt(d, Head(slides)))

\* lines 137-139: prs.slides[i - 1] raises IndexError in a deck without
\* slides, and analyze_slide raises at len(slide.shapes) on a broken slide
slide_step_raises(d, slide_num) == Len(d) = 0 \/ IsBroken(SlideAt(d, slide_num))

\* lines 164-167 without the handler: the exception goes on to the caller
analysis_except_Missing(self) ==
    [results |-> self.results, used_fonts |-> self.used_fonts,
     selected_slides_range |-> self.selected_slides_range,
     full_ocr_texts |-> self.full_ocr_texts,
     rows |-> <<>>, stats |-> [empty |-> TRUE], raised |-> TRUE]

\* lines 164-167: except Exception: ...; return [], {} with the fields of the
\* analyzer as the failed run left them
analysis_except(self) ==
    [results |-> self.results, used_fonts |-> self.used_fonts,
     selected_slides_range |-> self.selected_slides_range,
     full_ocr_texts |-> self.full_ocr_texts,
     rows |-> <<>>, stats |-> [empty |-> TRUE], raised |-> FALSE]

----------------------------------------------------------------------------
(* PresentationAnalyzer.calculate_conformance_percentage                    *)
(*                                                                         *)
(* The scores are Python floats.  A score is held here as the numerator of *)
(* an exact fraction over Unit(total_slides) = 2 * total_slides, and a      *)
(* rounded value as a whole number of tenths.                               *)

NoReport == [none |-> TRUE]      \* the return value None

\* dict.get(key, default)
Get(d, key, default) == IF key \in DOMAIN d THEN d[key] ELSE default

Unit(total_slides) == IF total_slides > 0 THEN 2 * total_slides ELSE 2

\* len(results), read from the analyzer instead of the argument
TotalSlidesOf_FromSelf(self, rows) == Len(self.results)

\* line 172: total_slides = len(results)
TotalSlidesOf(self, rows) == Len(rows)

\* lines 190-193 without the division by total_slides
proportional_score_Undivided(total_slides, issues, weight) ==
    IF total_slides > 0 THEN 2 * total_slides * weight * (total_slides - issues)
    ELSE weight * Unit(total_slides)

\* lines 190-193, 208-211, 216-219, 224-227:
\* (total_slides - issues) / total_slides * weight, the full weight for no rows
proportional_score(total_slides, issues, weight) ==
    IF total_slides > 0 THEN 2 * weight * (total_slides - issues)
    ELSE weight * Unit(total_slides)

\* lines 198-203 with the two lower steps exchanged
fonts_score_Swapped(total_slides, fonts_count) ==
    IF fonts_count <= 2 THEN 15 * Unit(total_slides)
    ELSE IF fonts_count <= 3 THEN 0
    ELSE (15 * Unit(total_slides)) \div 2

\* lines 198-203: 15, 15 * 0.5 or 0
fonts_score(total_slides, fonts_count) ==
    IF fonts_count <= 2 THEN 15 * Unit(total_slides)
    ELSE IF fonts_count <= 3 THEN (15 * Unit(total_slides)) \div 2
    ELSE 0

\* lines 231-235
transition_score(total_slides, has_transitions) ==
    IF has_transitions THEN 0 ELSE 10 * Unit(total_slides)

\* lines 241-247
is_compliant(result) ==
    /\ result.Background = CheckMark
    /\ result.Fonts = CheckMark
    /\ result.Text = CheckMark
    /\ result.TextOnImage = Net
    /\ result.Animations = CheckMark

\* lines 251-254 with the weight of the transitions criterion
slide_score_Weight10(total_slides, compliant_slides) ==
    IF total_slides > 0 THEN 2 * 10 * compliant_slides
    ELSE 10 * Unit(total_slides)

\* lines 251-254
slide_score(total_slides, compliant_slides) ==
    IF total_slides > 0 THEN 2 * 20 * compliant_slides
    ELSE 20 * Unit(total_slides)

\* the tenths of num / den cut off
RoundTenths_Down(num, den) == (10 * num) \div den

\* round(num / den, 1) in tenths for a value the float holds exactly or that
\* is no tie: the nearest tenth, a tie to the even tenth
RoundTenths(num, den) ==
    LET q == (10 * num) \div den
        r == (10 * num) % den
    IN IF 2 * r < den THEN q
       ELSE IF 2 * r > den THEN q + 1
       ELSE IF q % 2 = 0 THEN q ELSE q + 1

\* (achieved_score / 100) * 100 is not always achieved_score again: of the
\* ties k / 4 between two tenths (k odd, 0 < k < 400) the double-precision
\* product lands above the tie for k in DriftUp and below it for k in
\* DriftDown.  The table is that of the scores of up to 11 rows.
DriftUp == {109, 245, 249}
DriftDown == {115, 203, 207, 251, 255}

\* lines 258-259: round((achieved_score / total_possible) * 100, 1), in tenths
PercentageTenths(num, den) ==
    LET q == (10 * num) \div den
        r == (10 * num) % den
        isTie == 2 * r = den
        k == (4 * num) \div den
    IN IF isTie /\ (4 * num) % den = 0 /\ k \in DriftUp THEN q + 1
       ELSE IF isTie /\ (4 * num) % den = 0 /\ k \in DriftDown THEN q
       ELSE RoundTenths(num, den)

\* f"{percentage}": the repr of a float with one decimal
FloatText(tenths) == ToString(tenths \div 10) \o "." \o ToString(tenths % 10)

\* lines 262-281 with exclusive lower bounds
readiness_level_Exclusive(percentage) ==
    IF percentage > 900 THEN "otlichno"
    ELSE IF percentage > 750 THEN "horosho"
    ELSE IF percentage > 600 THEN "udovletvoritelno"
    ELSE IF percentage > 400 THEN "trebuet dorabotki"
    ELSE "kriticheski nizkaya"

\* lines 262-281
readiness_level(percentage) ==
    IF percentage >= 900 THEN "otlichno"
    ELSE IF percentage >= 750 THEN "horosho"
    ELSE IF percentage >= 600 THEN "udovletvoritelno"
    ELSE IF percentage >= 400 THEN "trebuet dorabotki"
    ELSE "kriticheski nizkaya"

\* line 284 with the edge of the 'satisfactory' tier as the threshold
can_send_to_designers_AtTier(percentage) == percentage >= 600

\* line 284, in tenths of a percent
can_send_to_designers(percentage) == percentage >= 570

\* lines 287-335: round(score, 1) in tenths, the weight and the counts of each
\* criterion
criteria_details_of(total_slides, background_issues, fonts_count, text_issues, text_on_images, anim_issues, transition_issues, compliant_slides) ==
    LET unit == Unit(total_slides)
    IN [background |->
            [score |-> RoundTenths(proportional_score(total_slides, background_issues, 15), unit),
             max |-> 15, issues |-> background_issues, total |-> total_slides],
        fonts |->
            [score |-> RoundTenths(fonts_score(total_slides, fonts_count), unit),
             max |-> 15, fonts_count |-> fonts_count],
        text_overload |->
            [score |-> RoundTenths(proportional_score(total_slides, text_issues, 10), unit),
             max |-> 10, issues |-> text_issues, total |-> total_slides],
        text_on_images |->
            [score |-> RoundTenths(proportional_score(total_slides, text_on_images, 15), unit),
             max |-> 15, issues |-> text_on_images, total |-> total_slides],
        animations |->
            [score |-> RoundTenths(proportional_score(total_slides, anim_issues, 15), unit),
             max |-> 15, issues |-> anim_issues, total |-> total_slides],
        transitions |->
            [score |-> RoundTenths(transition_score(total_slides, transition_issues # 0), unit),
             max |-> 10, has_issues |-> transition_issues > 0],
        slide_compliance |->
            [score |-> RoundTenths(slide_score(total_slides, compliant_slides), unit),
             max |-> 20, compliant |-> compliant_slides, total |-> total_slides]]

\* lines 338-352 with the fonts test before the background test
recommendations_of_FontsFirst(percentage, background_issues, fonts_count, text_issues, text_on_images, anim_issues, transition_issues) ==
    (IF percentage < 570
     THEN <<"Rekomenduetsya dorabotat prezentaciyu pered otpravkoj dizajneram">>
     ELSE <<>>)
    \o (IF fonts_count > 2
        THEN <<"Umenshite kolichestvo shriftov s " \o ToString(fonts_count) \o " do 2">>
        ELSE <<>>)
    \o (IF background_issues > 0
        THEN <<"Ispravte fon na " \o ToString(background_issues) \o " slajdah">>
        ELSE <<>>)
    \o (IF text_issues > 0
        THEN <<"Umenshite tekst na " \o ToString(text_issues) \o " slajdah">>
        ELSE <<>>)
    \o (IF text_on_images > 0
        THEN <<"Uberite tekst s izobrazhenij na " \o ToString(text_on_images) \o " slajdah">>
        ELSE <<>>)
    \o (IF anim_issues > 0
        THEN <<"Udalite animacii s " \o ToString(anim_issues) \o " slajdov">>
        ELSE <<>>)
    \o (IF transition_issues > 0
        THEN <<"Udalite perehody mezhdu slajdami">>
        ELSE <<>>)

\* lines 338-352
recommendations_of(percentage, background_issues, fonts_count, text_issues, text_on_images, anim_issues, transition_issues) ==
    (IF percentage < 570
     THEN <<"Rekomenduetsya dorabotat prezentaciyu pered otpravkoj dizajneram">>
     ELSE <<>>)
    \o (IF background_issues > 0
        THEN <<"Ispravte fon na " \o ToString(background_issues) \o " slajdah">>
        ELSE <<>>)
    \o (IF fonts_count > 2
        THEN <<"Umenshite kolichestvo shriftov s " \o ToString(fonts_count) \o " do 2">>
        ELSE <<>>)
    \o (IF text_issues > 0
        THEN <<"Umenshite tekst na " \o ToString(text_issues) \o " slajdah">>
        ELSE <<>>)
    \o (IF text_on_images > 0
        THEN <<"Uberite tekst s izobrazhenij na " \o ToString(text_on_images) \o " slajdah">>
        ELSE <<>>)
    \o (IF anim_issues > 0
        THEN <<"Udalite animacii s " \o ToString(anim_issues) \o " slajdov">>
        ELSE <<>>)
    \o (IF transition_issues > 0
        THEN <<"Udalite perehody mezhdu slajdami">>
        ELSE <<>>)

\* presentation_stats = None
NoStats == [none |-> TRUE]

\* the counters of a stats dict whose value is a str instead of a number: the
\* dict carries their names in str_valued and leaves their values out
StrValued(presentation_stats) == Get(presentation_stats, "str_valued", {})

\* an exception is raised inside the try block of lines 171-375:
\* AttributeError for None.get (line 189), TypeError for arithmetic or a
\* comparison on a str counter (lines 191, 198, 217, 340), KeyError for a row
\* without the verdict that lines 207, 223 and 242-246 read ('and' stops at
\* the first verdict that is no check mark)
scorer_raises(rows, presentation_stats) ==
    \/ presentation_stats = NoStats
    \/ StrValued(presentation_stats)
           \cap {"background_issues", "fonts_count", "text_on_images"} # {}
    \/ \E i \in 1..Len(rows) :
           LET r == rows[i]
           IN \/ "Text" \notin DOMAIN r
              \/ "Animations" \notin DOMAIN r
              \/ "Background" \notin DOMAIN r
              \/ /\ r.Background = CheckMark
                 /\ \/ "Fonts" \notin DOMAIN r
                    \/ /\ r.Fonts = CheckMark /\ r.Text = CheckMark
                       /\ "TextOnImage" \notin DOMAIN r

\* the call did not return: the exception went on to the caller
Raised == [propagated |-> TRUE]

\* lines 377-379 without the handler
scorer_except_Missing == Raised

\* lines 377-379: except Exception: st.error(...); return None
scorer_except == NoReport

\* lines 169-379: the report, or what the handler returns
calculate_conformance_percentage(self, rows, presentation_stats) ==
    IF scorer_raises(rows, presentation_stats) THEN scorer_except ELSE
    LET total_slides == TotalSlidesOf(self, rows)
        total_possible == 15 + 15 + 10 + 15 + 15 + 10 + 20
        background_issues == Get(presentation_stats, "background_issues", 0)
        fonts_count == Get(presentation_stats, "fonts_count", 0)
        text_issues == Count(rows, "Text", CrossMark)
        text_on_images == Get(presentation_stats, "text_on_images", 0)
        anim_issues == Count(rows, "Animations", CrossMark)
        transition_issues ==
            IF Get(presentation_stats, "has_transitions", FALSE) THEN 1 ELSE 0
        compliant_slides == Cardinality({i \in 1..Len(rows) : is_compliant(rows[i])})
        achieved_score ==
            proportional_score(total_slides, background_issues, 15)
            + fonts_score(total_slides, fonts_count)
            + proportional_score(total_slides, text_issues, 10)
            + proportional_score(total_slides, text_on_images, 15)
            + proportional_score(total_slides, anim_issues, 15)
            + transition_score(total_slides, transition_issues # 0)
            + slide_score(total_slides, compliant_slides)
        percentage == PercentageTenths(achieved_score, Unit(total_slides))
        can_send == can_send_to_designers(percentage)
    IN [percentage |-> percentage,
        readiness_level |-> readiness_level(percentage),
        can_send_to_designers |-> can_send,
        criteria_details |->
            criteria_details_of(total_slides, background_issues, fonts_count, text_issues,
                                text_on_images, anim_issues, transition_issues,
                                compliant_slides),
        recommendations |->
            recommendations_of(percentage, background_issues, fonts_count, text_issues,
                               text_on_images, anim_issues, transition_issues),
        user_message |->
            IF can_send
            THEN "sootvetstvuet na " \o FloatText(percentage) \o "%, gotova"
            ELSE "sootvetstvuet na " \o FloatText(percentage) \o "%, dorabotat",
        total_possible_score |-> total_possible,
        achieved_score |-> RoundTenths(achieved_score, Unit(total_slides)),
        compliant_slides |-> compliant_slides,
        total_slides |-> total_slides]

----------------------------------------------------------------------------
(* Inputs of the range selector *)

Alphabet == {"0", "1", "2", ",", "-", " "}

RECURSIVE StringsOfLen(_)
StringsOfLen(n) ==
    IF n = 0 THEN {<<>>}
    ELSE {Append(s, c) : s \in StringsOfLen(n - 1), c \in Alphabet}

BoundedStrings(max_len) == UNION {StringsOfLen(n) : n \in 0..max_len}

\* selections outside the enumerated alphabet, with the deck size they are
\* tried on
ExampleCalls ==
    { <<NoneValue, 3>>,
      <<<<"a", "l", "l">>, 3>>, <<<<"A", "L", "L">>, 3>>, <<<<"A", "l", "l">>, 2>>,
      <<<<"a", "L", "l">>, 1>>, <<<<" ", "a", "l", "l", " ">>, 3>>,
      <<<<"x">>, 3>>, <<<<"x", ",", "x">>, 2>>, <<<<"x", "-", "2">>, 2>>,
      <<<<"1", ",", "x">>, 3>>, <<<<"x", ",", "2", "-", "3">>, 3>>,
      <<<<"sup2">>, 3>>, <<<<"1", ",", "sup2">>, 3>>, <<<<"sup2", "-", "2">>, 3>>,
      <<<<"2", ",", "4", "-", "5">>, 6>>, <<<<"1", "0">>, 6>>,
      <<<<"7", ",", "8">>, 6>>, <<<<"4", "-", "9">>, 6>>,
      <<<<"1", " ", "2", ",", "3">>, 12>> }

\* the fields __init__ sets
FreshAnalyzer ==
    /\ results = <<>>
    /\ used_fonts = {}
    /\ selected_slides_range = AllRange
    /\ full_ocr_texts = <<>>
    /\ calls = 0

NoArgs == <<>>

FreshCaller ==
    /\ ret_rows = <<>>
    /\ ret_stats = EmptyStats
    /\ last_range = AllRange
    /\ report = NoReport
    /\ scored_args = NoArgs
    /\ call_raised = FALSE

\* no call of check_images_enhanced on its own
NoSlide == [none |-> TRUE]
NotCalled == [called |-> FALSE]
ImagesIdle == img_slide = NoSlide /\ img_out = NotCalled

ParseIdle == p_range = <<>> /\ p_total = 0 /\ p_out = <<>> /\ p_done = TRUE

ParseInit ==
    /\ \/ p_range \in BoundedStrings(MaxLen) /\ p_total \in 1..MaxTotal
       \/ \E c \in ExampleCalls : p_range = c[1] /\ p_total = c[2]
    /\ p_out = <<>>
    /\ p_done = FALSE
    /\ deck = <<>>
    /\ FreshAnalyzer
    /\ FreshCaller
    /\ TESSERACT_AVAILABLE = FALSE
    /\ ImagesIdle

\* a call parse_slides_range(p_range, p_total) on an analyzer
ParseCall ==
    /\ ~p_done
    /\ LET r == parse_slides_range(p_range, p_total)
       IN /\ p_out' = r.slides
          /\ selected_slides_range' =
                 IF r.field = "all" THEN AllRange ELSE selected_slides_range
    /\ p_done' = TRUE
    /\ UNCHANGED <<p_range, p_total, deck, results, used_fonts, full_ocr_texts, calls,
                   caller_vars, TESSERACT_AVAILABLE, image_vars>>

ParseNext == ParseCall

SpecParse == ParseInit /\ [][ParseNext]_vars

----------------------------------------------------------------------------
(* The analysis run and its caller *)

\* the selections the caller passes to analyze_selected_slides
AnalysisSelections ==
    { AllRange, <<"2">>, <<"1", "0">>, <<"0", "-", "1">>, <<"7", "-", "9">>, <<"sup2">> }

Self ==
    [results |-> results, used_fonts |-> used_fonts,
     selected_slides_range |-> selected_slides_range,
     full_ocr_texts |-> full_ocr_texts]

Init ==
    /\ ParseIdle
    /\ deck \in Decks
    /\ FreshAnalyzer
    /\ FreshCaller
    /\ TESSERACT_AVAILABLE = TRUE       \* a host where import pytesseract succeeds
    /\ ImagesIdle

\* PresentationAnalyzer(pptx_path): the caller takes a new instance
NewAnalyzer ==
    /\ results # <<>> \/ selected_slides_range # AllRange
    /\ results' = <<>>
    /\ used_fonts' = {}
    /\ selected_slides_range' = AllRange
    /\ full_ocr_texts' = <<>>
    /\ UNCHANGED <<parse_vars, deck, calls, caller_vars, TESSERACT_AVAILABLE, image_vars>>

\* lines 142-162 after the loop over the slides made new_rows: analyze_fonts,
\* save_full_ocr_results, presentation_stats; or the handler, when a step of
\* the loop raised
run_after_loop(self, d, slides_range, range_field, new_rows, fonts, failed) ==
    IF failed
    THEN \* the loop of lines 137-140 stopped at the step that raised
         analysis_except([results |-> self.results \o new_rows, used_fonts |-> fonts,
                          selected_slides_range |-> range_field,
                          full_ocr_texts |-> self.full_ocr_texts])
    ELSE CHOOSE run \in
             { [results |-> patched, used_fonts |-> fonts,
                selected_slides_range |-> range_field,
                full_ocr_texts |-> save_full_ocr_results(self.full_ocr_texts, patched),
                rows |-> patched,
                stats |-> presentation_stats_of(new_rows, slides_range, d, fonts),
                raised |-> FALSE]
               : patched \in {analyze_fonts(self.results \o new_rows, fonts)} } : TRUE

\* lines 113-140 on what parse_slides_range returned
run_on_parsed(self, d, slides_range, parsed) ==
    LET slides_to_analyze == parsed.slides
        range_field == IF parsed.field = "all" THEN AllRange ELSE slides_range
        failing == {k \in 1..Len(slides_to_analyze) :
                       slide_step_raises(d, slides_to_analyze[k])}
        \* the slides analyzed before the first step that raises
        done == IF failing = {} THEN slides_to_analyze
                ELSE SubSeq(slides_to_analyze, 1,
                            (CHOOSE k \in failing : \A j \in failing : k <= j) - 1)
    IN IF slides_to_analyze = <<>>
       THEN \* return [], {} of line 116
            [results |-> self.results, used_fonts |-> self.used_fonts,
             selected_slides_range |-> range_field,
             full_ocr_texts |-> self.full_ocr_texts,
             rows |-> <<>>, stats |-> EmptyStats, raised |-> FALSE]
       ELSE CHOOSE run \in
                { run_after_loop(self, d, slides_range, range_field, new_rows,
                                 self.used_fonts \cup FontsOf(d, done), failing # {})
                  : new_rows \in {[k \in 1..Len(done) |->
                                      analyze_slide(SlideAt(d, done[k]), done[k])]} } : TRUE

\* PresentationAnalyzer.analyze_selected_slides on the document d, by an
\* analyzer whose fields are self: the fields it leaves and the pair it returns
analyze_selected_slides(self, d, slides_range) ==
    IF d = Unopenable
    THEN \* line 107, then Presentation(self.pptx_path) raises on line 109
         analysis_except([self EXCEPT !.selected_slides_range = slides_range])
    ELSE CHOOSE run \in
             { run_on_parsed(self, d, slides_range, parsed)
               : parsed \in {parse_slides_range(slides_range, Len(d))} } : TRUE

\* results, presentation_stats = analyzer.analyze_selected_slides(slides_range)
AnalyzeSelectedSlides(slides_range) ==
    /\ calls < MaxCalls
    /\ calls' = calls + 1
    /\ last_range' = slides_range
    /\ \E run \in {analyze_selected_slides(Self, deck, slides_range)} :
          /\ results' = run.results
          /\ used_fonts' = run.used_fonts
          /\ selected_slides_range' = run.selected_slides_range
          /\ full_ocr_texts' = run.full_ocr_texts
          /\ ret_rows' = IF run.raised THEN ret_rows ELSE run.rows
          /\ ret_stats' = IF run.raised THEN ret_stats ELSE run.stats
          /\ call_raised' = run.raised
    /\ UNCHANGED <<parse_vars, deck, report, scored_args, TESSERACT_AVAILABLE, image_vars>>

\* conformance_info = analyzer.calculate_conformance_percentage(results,
\* presentation_stats): the assignment happens if the call returns
ScorerCall ==
    /\ \E out \in {calculate_conformance_percentage(Self, ret_rows, ret_stats)} :
           /\ call_raised' = (out = Raised)
           /\ report' = IF out = Raised THEN report ELSE out
    /\ scored_args' = <<ret_rows, ret_stats>>

\* the scorer call of the results page, made once the caller holds results
CalculateConformance ==
    /\ ret_rows # <<>>
    /\ ScorerCall
    /\ UNCHANGED <<parse_vars, deck, analyzer_vars, calls, ret_rows, ret_stats, last_range,
                   TESSERACT_AVAILABLE, image_vars>>

Next ==
    \/ \E slides_range \in AnalysisSelections : AnalyzeSelectedSlides(slides_range)
    \/ NewAnalyzer
    \/ CalculateConformance

Spec == Init /\ [][Next]_vars

----------------------------------------------------------------------------
(* The scorer as a function of its two arguments: a call on any row list   *)
(* and stats dict, those of an analysis run or not                          *)

Mark(ok) == IF ok THEN CheckMark ELSE CrossMark

\* the five verdicts of a row that the scorer reads
VerdictRow(background, fonts, text, no_text_on_image, animations) ==
    [Background |-> Mark(background), Fonts |-> Mark(fonts), Text |-> Mark(text),
     TextOnImage |-> IF no_text_on_image THEN Net ELSE Da,
     Animations |-> Mark(animations)]

ScoredRowKinds ==
    { VerdictRow(TRUE, TRUE, TRUE, TRUE, TRUE),
      VerdictRow(FALSE, TRUE, TRUE, TRUE, TRUE),
      VerdictRow(TRUE, FALSE, TRUE, TRUE, TRUE),
      VerdictRow(TRUE, TRUE, FALSE, TRUE, TRUE),
      VerdictRow(TRUE, TRUE, TRUE, FALSE, TRUE),
      VerdictRow(TRUE, TRUE, TRUE, TRUE, FALSE),
      VerdictRow(FALSE, FALSE, FALSE, FALSE, FALSE) }

RECURSIVE RowListsOfLen(_)
RowListsOfLen(n) ==
    IF n = 0 THEN {<<>>}
    ELSE {Append(rows, r) : rows \in RowListsOfLen(n - 1), r \in ScoredRowKinds}

\* the counters of a stats dict for n rows; a run counts each at most once
\* per row
ScoredStats(n) ==
    [background_issues : 0..n, fonts_count : 0..MaxFonts, text_on_images : 0..n,
     has_transitions : BOOLEAN]

\* a row without one of its verdicts
Lacking(row, column) == [c \in (DOMAIN row) \ {column} |-> row[c]]

\* arguments that make the body of the scorer fail, and two that do not (a
\* verdict that 'and' never reaches is not missed; {} has every default)
FaultyCalls ==
    LET clean == VerdictRow(TRUE, TRUE, TRUE, TRUE, TRUE)
        dark == VerdictRow(FALSE, TRUE, TRUE, TRUE, TRUE)
        stats == [background_issues |-> 1, fonts_count |-> 2, text_on_images |-> 0,
                  has_transitions |-> FALSE]
    IN { <<<<clean, Lacking(clean, c)>>, stats>> :
             c \in {"Background", "Fonts", "Text", "TextOnImage", "Animations"} }
       \cup { <<<<Lacking(dark, c), clean>>, stats>> : c \in {"Fonts", "TextOnImage"} }
       \cup { <<<<clean>>, NoStats>>, <<<<>>, NoStats>>, <<<<clean, dark>>, EmptyStats>> }
       \cup { <<rows, [has_transitions |-> TRUE, str_valued |-> {c}]>> :
                 rows \in {<<>>, <<dark>>},
                 c \in {"background_issues", "fonts_count", "text_on_images"} }

\* four rows: the row counts of up to 11 rows at which a sum of scores can lie
\* halfway between two tenths are 4 and 8
TieCalls ==
    LET clean == VerdictRow(TRUE, TRUE, TRUE, TRUE, TRUE)
        bad == VerdictRow(FALSE, FALSE, FALSE, FALSE, FALSE)
    IN { <<[i \in 1..4 |-> IF i <= k THEN bad ELSE clean], stats>> :
             k \in 0..4,
             stats \in [background_issues : 0..4, fonts_count : {2, 3, 4},
                        text_on_images : 0..4, has_transitions : BOOLEAN] }

ScorerInit ==
    /\ ParseIdle
    /\ deck = <<>>
    /\ FreshAnalyzer
    /\ last_range = AllRange
    /\ report = NoReport
    /\ scored_args = NoArgs
    /\ call_raised = FALSE
    /\ TESSERACT_AVAILABLE = FALSE
    /\ ImagesIdle
    /\ \/ \E n \in 0..MaxRows :
              ret_rows \in RowListsOfLen(n) /\ ret_stats \in ScoredStats(n)
       \/ \E c \in FaultyCalls \cup TieCalls : ret_rows = c[1] /\ ret_stats = c[2]

\* calculate_conformance_percentage(ret_rows, ret_stats), called once
ScorerOnArguments ==
    /\ scored_args = NoArgs
    /\ ScorerCall
    /\ UNCHANGED <<parse_vars, deck, analyzer_vars, calls, ret_rows, ret_stats, last_range,
                   TESSERACT_AVAILABLE, image_vars>>

ScorerNext == ScorerOnArguments

SpecScorer == ScorerInit /\ [][ScorerNext]_vars

----------------------------------------------------------------------------
(* Claims about the range selector, checked under SpecParse *)

IsSorted(xs) == \A i \in 1..(Len(xs) - 1) : xs[i] < xs[i + 1]

\* the grammar of the selection language: a bare integer is a non-empty run
\* of ASCII digits, a sub-range is two bare integers joined by one '-';
\* spaces are not significant
IsBareInteger(tok) == Len(tok) > 0 /\ \A i \in 1..Len(tok) : tok[i] \in DigitChars

IsSubRange(tok) ==
    \E k \in 2..(Len(tok) - 1) :
        /\ tok[k] = "-"
        /\ IsBareInteger(SubSeq(tok, 1, k - 1))
        /\ IsBareInteger(SubSeq(tok, k + 1, Len(tok)))

Tokens(s) == split(replace_spaces(s), ",")

NoParseableToken(s) ==
    \A k \in 1..Len(Tokens(s)) :
        ~IsBareInteger(Tokens(s)[k]) /\ ~IsSubRange(Tokens(s)[k])

\* the slides one element of a list selects: an in-range integer, or a..b
\* with b clamped to the deck size; nothing for a malformed element
TokenSet(tok, total) ==
    IF IsBareInteger(tok)
    THEN {n \in 1..total : n = int(tok)}
    ELSE IF IsSubRange(tok)
    THEN LET k == CHOOSE j \in 2..(Len(tok) - 1) : tok[j] = "-"
             a == int(SubSeq(tok, 1, k - 1))
             b == int(SubSeq(tok, k + 1, Len(tok)))
         IN {n \in a..b : n <= total}
    ELSE {}

SelectionUnion(s, total) ==
    UNION {TokenSet(Tokens(s)[k], total) : k \in 1..Len(Tokens(s))}

\* an element made of digit characters that int() does not accept
IsRejectedDigits(tok) == isdigit(tok) /\ ~IsBareInteger(tok)

HasRejectedElement(s) ==
    \E k \in 1..Len(Tokens(s)) :
        LET tok == Tokens(s)[k]
            rp == split(tok, "-")
        IN \/ IsRejectedDigits(tok)
           \/ /\ Len(rp) = 2 /\ isdigit(rp[1]) /\ isdigit(rp[2])
              /\ (IsRejectedDigits(rp[1]) \/ IsRejectedDigits(rp[2]))

\* C1: for every selection string and every total_slides >= 1 the list
\* returned by parse_slides_range is sorted ascending, has no duplicates and
\* every element lies in [1, total_slides].
C1_OutputSortedUniqueInDeck ==
    p_done =>
        /\ IsSorted(p_out)
        /\ \A i \in 1..Len(p_out) : 1 <= p_out[i] /\ p_out[i] <= p_total

\* C3: for "all" in any letter case, an empty or None selection, or a
\* selection with no parseable token, parse_slides_range returns exactly
\* [1..total_slides].
C3_FullRangeForAllEmptyInvalid ==
    (p_done /\ (\/ p_range \in {<<>>, NoneValue}
                \/ lower(p_range) = AllRange
                \/ NoParseableToken(p_range)))
        => p_out = Range(1, p_total)

\* the case of C3: an unparseable selection that is neither empty nor "all"
\* has been resolved to the whole deck
C3_Witness ==
    /\ p_done
    /\ p_range \notin {<<>>, NoneValue} /\ lower(p_range) # AllRange
    /\ Contains(p_range, ",") /\ NoParseableToken(p_range)
    /\ p_total = 3 /\ p_out = <<1, 2, 3>>

\* C4 as stated: for a comma-separated selection with at least one bare
\* integer or a-b element parse_slides_range returns the sorted union of the
\* in-range integers and of each sub-range with its end clamped to
\* total_slides; malformed elements contribute nothing.
C4_Original_SortedUnion ==
    (p_done /\ Contains(p_range, ",") /\ ~NoParseableToken(p_range))
        => p_out = SortedOfSet(SelectionUnion(p_range, p_total))

\* C4 amended: for a comma-separated selection (spaces ignored)
\* parse_slides_range returns the sorted union of the in-range integers and
\* of each sub-range a..min(b, total_slides) when that union is non-empty and
\* no element is a digit string int() rejects; otherwise it returns
\* [1..total_slides].  Other malformed elements contribute nothing and do not
\* discard the valid ones.
C4_SortedUnionOrFullRange ==
    (p_done /\ Contains(p_range, ","))
        => p_out = IF SelectionUnion(p_range, p_total) = {} \/ HasRejectedElement(p_range)
                   THEN Range(1, p_total)
                   ELSE SortedOfSet(SelectionUnion(p_range, p_total))

\* the case of C4: "2,4-5" on a 6-slide deck
C4_Witness ==
    /\ p_done
    /\ p_range = <<"2", ",", "4", "-", "5">> /\ p_total = 6
    /\ p_out = <<2, 4, 5>>

----------------------------------------------------------------------------
(* The scorer on the analyses of documents that grow worse one violation   *)
(* at a time: the document is edited, a new analyzer analyzes all of it     *)
(* and the scorer is called on what it returns.                             *)

\* the fonts of the first slide, in the order the edits add them
FontPool == <<"Roboto", "Lato", "Oswald", "Montserrat", "Raleway", "Ubuntu">>

CleanSlide ==
    [background |-> Fill(1, White), autoshapes |-> <<>>, markup |-> <<>>, faults |-> {},
     animated |-> FALSE, transition |-> FALSE,
     pictures |-> <<Picture(0, 0, 100, 100, NoBestText)>>,
     text_shapes |-> <<TextShape(200, 0, 200, 100, 120)>>,
     shapes |-> 2, fonts |-> {}]

NewSelf ==
    [results |-> <<>>, used_fonts |-> {}, selected_slides_range |-> AllRange,
     full_ocr_texts |-> <<>>]

\* streamlit_app.py lines 100-103 and 163 on the document d
AnalyzedAndScored(d) ==
    /\ \E run \in {analyze_selected_slides(NewSelf, d, AllRange)} :
           /\ results' = run.results
           /\ used_fonts' = run.used_fonts
           /\ selected_slides_range' = run.selected_slides_range
           /\ full_ocr_texts' = run.full_ocr_texts
           /\ ret_rows' = run.rows
           /\ ret_stats' = run.stats
    /\ report' = calculate_conformance_percentage(
                     [results |-> results', used_fonts |-> used_fonts',
                      selected_slides_range |-> selected_slides_range',
                      full_ocr_texts |-> full_ocr_texts'],
                     ret_rows', ret_stats')
    /\ scored_args' = <<ret_rows', ret_stats'>>
    /\ call_raised' = FALSE

ScoreInit ==
    /\ TESSERACT_AVAILABLE = TRUE
    /\ ParseIdle
    /\ calls = 1
    /\ last_range = AllRange
    /\ \E n \in 1..MaxRows :
           deck = [i \in 1..n |->
                      IF i = 1 THEN [CleanSlide EXCEPT !.fonts = {FontPool[1], FontPool[2]}]
                      ELSE CleanSlide]
    /\ \E run \in {analyze_selected_slides(NewSelf, deck, AllRange)} :
           /\ results = run.results
           /\ used_fonts = run.used_fonts
           /\ selected_slides_range = run.selected_slides_range
           /\ full_ocr_texts = run.full_ocr_texts
           /\ ret_rows = run.rows
           /\ ret_stats = run.stats
    /\ report = calculate_conformance_percentage(Self, ret_rows, ret_stats)
    /\ scored_args = <<ret_rows, ret_stats>>
    /\ call_raised = FALSE
    /\ ImagesIdle

Edited(d) ==
    /\ deck' = d
    /\ AnalyzedAndScored(d)
    /\ UNCHANGED <<parse_vars, calls, last_range, TESSERACT_AVAILABLE, image_vars>>

MoreBackground(i) ==
    /\ check_background_comprehensive(deck[i])
    /\ Edited([deck EXCEPT ![i].background = Fill(1, Blue)])

MoreText(i) ==
    /\ ~check_text_improved(deck[i]).text_overload
    /\ Edited([deck EXCEPT ![i].text_shapes = <<TextShape(200, 0, 200, 100, 1500)>>])

\* a picture with text that OCR reads takes the place of the picture
MoreTextOnImage(i) ==
    /\ ~check_images_enhanced(deck[i]).has_text_on_images
    /\ Edited([deck EXCEPT ![i].pictures =
                   <<Picture(0, 0, 100, 100, ReadableText(41, 80, "Tesseract_PSM6_rus+eng"))>>])

\* the slides are alike before the edits, so the animation goes to the first
\* slide that has none
MoreAnimation(i) ==
    /\ ~deck[i].animated
    /\ \A j \in 1..(i - 1) : deck[j].animated
    /\ Edited([deck EXCEPT ![i].animated = TRUE])

\* one more font that is no system font
MoreFonts ==
    LET n == Cardinality(filtered_fonts(deck[1].fonts))
    IN /\ n < MaxFonts
       /\ Edited([deck EXCEPT ![1].fonts = @ \cup {FontPool[n + 1]}])

\* one more font that is a system font
MoreSystemFonts ==
    /\ "Arial" \notin deck[1].fonts
    /\ Edited([deck EXCEPT ![1].fonts = @ \cup {"Arial"}])

MoreTransitions ==
    /\ ~deck[1].transition
    /\ Edited([deck EXCEPT ![1].transition = TRUE])

ScoreNext ==
    \/ \E i \in 1..Len(deck) : MoreBackground(i)
    \/ \E i \in 1..Len(deck) : MoreText(i)
    \/ \E i \in 1..Len(deck) : MoreTextOnImage(i)
    \/ \E i \in 1..Len(deck) : MoreAnimation(i)
    \/ MoreFonts
    \/ MoreSystemFonts
    \/ MoreTransitions

SpecScore == ScoreInit /\ [][ScoreNext]_vars

----------------------------------------------------------------------------
(* Claims about the analysis run and the scorer *)

IsOutOfRangeInteger(s, total) ==
    /\ IsBareInteger(strip(s))
    /\ (int(strip(s)) < 1 \/ int(strip(s)) > total)

\* C2: a bare integer selection that is out of range falls back to the full
\* range: analyze_selected_slides analyzes every slide of the deck and the
\* recorded effective range becomes "all".
C2_OutOfRangeIntegerAnalyzesWholeDeck ==
    (calls > 0 /\ Len(deck) > 0 /\ deck \notin FailingDocuments
        /\ IsOutOfRangeInteger(last_range, Len(deck)))
        => /\ ret_rows # <<>>
           /\ ret_stats.selected_slides_count = Len(deck)
           /\ selected_slides_range = AllRange

\* C5: whenever range parsing falls back to the full range, after
\* analyze_selected_slides returns both the analyzer's selected_slides_range
\* and the selected-range descriptor of the stats read "all".
C5_FallbackRecordedAsAll ==
    (calls > 0 /\ ret_rows # <<>>
        /\ parse_slides_range(last_range, Len(deck)).field = "all")
        => /\ selected_slides_range = AllRange
           /\ ret_stats.selected_slides_range = AllRange

\* C6: in every returned row the violation list is empty exactly when the
\* status is "OK", and a non-empty list gives a status equal to its tags
\* joined with ", " in list order.
C6_StatusIsJoinedViolations ==
    \A i \in 1..Len(ret_rows) :
        /\ (ret_rows[i].Violations = <<>>) <=> (ret_rows[i].Status = StatusOK)
        /\ ret_rows[i].Violations # <<>> =>
               ret_rows[i].Status = join(ret_rows[i].Violations)

\* the case of C6: a row with tags of its own that the font patch extended
C6_Witness ==
    \E i \in 1..Len(ret_rows) :
        /\ ret_rows[i].Violations = <<"TEKST(1500)", "ANIMACII", "SHRIFTY(3)">>
        /\ ret_rows[i].Status = "TEKST(1500), ANIMACII, SHRIFTY(3)"

FailingCriteria(result) ==
    Cardinality({c \in {"Background", "Fonts", "Text", "Animations"} :
                    result[c] = CrossMark})
    + (IF result.TextOnImage = Da THEN 1 ELSE 0)

\* C7: every returned row has a non-empty violation list if and only if one
\* of its per-criterion verdicts fails, with exactly one tag per failing
\* criterion.
C7_OneTagPerFailingCriterion ==
    \A i \in 1..Len(ret_rows) :
        Len(ret_rows[i].Violations) = FailingCriteria(ret_rows[i])

C9_PercentageNonIncreasing ==
    [][report'.percentage <= report.percentage]_vars

\* the case of C9: an input reached through violations of every criterion
C9_Witness ==
    /\ ret_stats.background_issues > 0 /\ ret_stats.text_on_images > 0
    /\ ret_stats.has_animations /\ ret_stats.has_transitions
    /\ ret_stats.fonts_count > 3
    /\ \E i \in 1..Len(ret_rows) : ret_rows[i].Text = CrossMark
    /\ report.percentage < 1000

----------------------------------------------------------------------------
(* Claims about the fonts criterion and the report *)

\* the rows the caller holds are those of one run on a new analyzer, and the
\* report is the scorer's on them
ScoredOneRun ==
    /\ report # NoReport
    /\ ret_rows # <<>>
    /\ scored_args = <<ret_rows, ret_stats>>
    /\ results = ret_rows
    /\ Len(ret_rows) = ret_stats.selected_slides_count

\* the distinct fonts of the analyzed slides that are no system fonts
NonSystemFontCount ==
    Cardinality(UNION {SlideAt(deck, ret_rows[i].Slide).fonts : i \in 1..Len(ret_rows)}
                \ SystemFontNames)

HasFontTag(result, n) == "SHRIFTY(" \o ToString(n) \o ")" \in SeqToSet(result.Violations)

\* C11: after an analysis run followed by scoring, with n the number of
\* distinct non-system fonts: n = 2 gives fonts score 15 and no row with a
\* font violation; n = 3 gives 7.5 and every row with the font tag of count 3;
\* n >= 4 gives 0 and every row with the font tag.
C11_FontScoreAgreesWithRowVerdicts ==
    ScoredOneRun =>
        LET n == NonSystemFontCount
            score == report.criteria_details.fonts.score
        IN /\ n = 2 => /\ score = 150
                       /\ \A i \in 1..Len(ret_rows) : ret_rows[i].Fonts = CheckMark
           /\ n = 3 => /\ score = 75
                       /\ \A i \in 1..Len(ret_rows) :
                              ret_rows[i].Fonts = CrossMark /\ HasFontTag(ret_rows[i], 3)
           /\ n >= 4 => /\ score = 0
                        /\ \A i \in 1..Len(ret_rows) :
                               ret_rows[i].Fonts = CrossMark /\ HasFontTag(ret_rows[i], n)

\* the scorer was called on arguments that carry every counter and returned
\* a report
ReportedOnCounters ==
    /\ scored_args # NoArgs
    /\ report # NoReport
    /\ ~call_raised
    /\ {"background_issues", "fonts_count", "text_on_images", "has_transitions"}
           \subseteq DOMAIN scored_args[2]

Abs(x) == IF x < 0 THEN -x ELSE x

\* twice the sum of the seven criterion scores of C12, times N (times 1 for
\* N = 0)
TwiceSumOfScores(rows, st) ==
    LET N == Len(rows)
        den == IF N = 0 THEN 1 ELSE N
        Proportional(violations, weight) ==
            IF N = 0 THEN 2 * weight * den ELSE 2 * weight * (N - violations)
        text_violations == Cardinality({i \in 1..N : rows[i].Text = CrossMark})
        animation_violations == Cardinality({i \in 1..N : rows[i].Animations = CrossMark})
        passing == Cardinality({i \in 1..N :
                       /\ rows[i].Background = CheckMark /\ rows[i].Fonts = CheckMark
                       /\ rows[i].Text = CheckMark /\ rows[i].TextOnImage = Net
                       /\ rows[i].Animations = CheckMark})
    IN Proportional(st.background_issues, 15)
       + (IF st.fonts_count <= 2 THEN 30 * den
          ELSE IF st.fonts_count = 3 THEN 15 * den ELSE 0)
       + Proportional(text_violations, 10)
       + Proportional(st.text_on_images, 15)
       + Proportional(animation_violations, 15)
       + (IF st.has_transitions THEN 0 ELSE 20 * den)
       + (IF N = 0 THEN 40 * den ELSE 40 * passing)

\* C12: the percentage of a report is the sum of the seven criterion scores
\* (weights 15/15/10/15/15/10/20, full weights when there are no rows) to one
\* decimal: a tenth nearest to the sum.
C12_PercentageIsSumOfScores ==
    ReportedOnCounters =>
        LET rows == scored_args[1]
            den == IF Len(rows) = 0 THEN 1 ELSE Len(rows)
        IN Abs(10 * TwiceSumOfScores(rows, scored_args[2])
               - report.percentage * 2 * den) <= den

\* the case of C12: two rows of which one passes, with 3 fonts and a
\* transition
C12_Witness ==
    /\ ReportedOnCounters
    /\ Len(scored_args[1]) = 2 /\ report.compliant_slides = 1
    /\ scored_args[2].fonts_count = 3 /\ scored_args[2].has_transitions
    /\ scored_args[2].background_issues = 1 /\ scored_args[2].text_on_images = 0
    /\ report.criteria_details.fonts.score = 75
    /\ report.percentage = 650

\* the scorer was called and returned a report
Reported == scored_args # NoArgs /\ report # NoReport /\ ~call_raised

TierRank(level) ==
    CASE level = "kriticheski nizkaya" -> 0
      [] level = "trebuet dorabotki" -> 1
      [] level = "udovletvoritelno" -> 2
      [] level = "horosho" -> 3
      [] level = "otlichno" -> 4
      [] OTHER -> -1

\* C13: the readiness tier of a report is decided by its percentage alone,
\* with inclusive lower bounds 90, 75, 60 and 40: the tier's rank is the
\* number of bounds the percentage reaches, so a higher percentage never has
\* a lower tier.
C13_TierByPercentage ==
    Reported =>
        TierRank(report.readiness_level)
            = Cardinality({b \in {400, 600, 750, 900} : report.percentage >= b})

\* the case of C13: a percentage on a tier's lower bound
C13_Witness ==
    Reported /\ report.percentage = 600 /\ report.readiness_level = "udovletvoritelno"

ReworkMessage == "Rekomenduetsya dorabotat prezentaciyu pered otpravkoj dizajneram"

\* C14: in every report can_send_to_designers is true exactly when the
\* percentage is at least 57, the overall-rework recommendation is present
\* exactly when it is false, and the summary message is the variant that
\* can_send_to_designers selects.
C14_SendableAt57 ==
    Reported =>
        /\ report.can_send_to_designers = (report.percentage >= 570)
        /\ (ReworkMessage \in SeqToSet(report.recommendations))
               = ~report.can_send_to_designers
        /\ report.user_message =
               "sootvetstvuet na " \o FloatText(report.percentage)
               \o (IF report.can_send_to_designers THEN "%, gotova" ELSE "%, dorabotat")

\* the case of C14: a sendable report of the 'needs work' tier
C14_Witness ==
    /\ Reported
    /\ 570 <= report.percentage /\ report.percentage < 600
    /\ report.readiness_level = "trebuet dorabotki"
    /\ report.can_send_to_designers

\* the messages of the seven tests in the order of C15, each with whether its
\* raw count is non-zero
CriterionMessages(rows, st, percentage) ==
    LET text_issues == Cardinality({i \in 1..Len(rows) : rows[i].Text = CrossMark})
        anim_issues == Cardinality({i \in 1..Len(rows) : rows[i].Animations = CrossMark})
    IN << <<percentage < 570, ReworkMessage>>,
          <<st.background_issues > 0,
            "Ispravte fon na " \o ToString(st.background_issues) \o " slajdah">>,
          <<st.fonts_count > 2,
            "Umenshite kolichestvo shriftov s " \o ToString(st.fonts_count) \o " do 2">>,
          <<text_issues > 0, "Umenshite tekst na " \o ToString(text_issues) \o " slajdah">>,
          <<st.text_on_images > 0,
            "Uberite tekst s izobrazhenij na " \o ToString(st.text_on_images) \o " slajdah">>,
          <<anim_issues > 0, "Udalite animacii s " \o ToString(anim_issues) \o " slajdov">>,
          <<st.has_transitions, "Udalite perehody mezhdu slajdami">> >>

RECURSIVE Applicable(_)
Applicable(messages) ==
    IF Len(messages) = 0 THEN <<>>
    ELSE (IF Head(messages)[1] THEN <<Head(messages)[2]>> ELSE <<>>)
         \o Applicable(Tail(messages))

\* C15: the recommendation list holds one message per criterion whose raw
\* violation count is non-zero and none for the others, in the order overall
\* rework, background, fonts, text overload, text on images, animations,
\* transitions; the fonts message is there exactly when the font count
\* exceeds 2.
C15_RecommendationsInOrder ==
    ReportedOnCounters =>
        report.recommendations
            = Applicable(CriterionMessages(scored_args[1], scored_args[2],
                                           report.percentage))

\* the case of C15: every criterion violated
C15_Witness ==
    ReportedOnCounters /\ Len(report.recommendations) = 7

ReportFields ==
    {"percentage", "readiness_level", "can_send_to_designers", "criteria_details",
     "recommendations", "user_message", "total_possible_score", "achieved_score",
     "compliant_slides", "total_slides"}

\* the arguments of the call cannot be scored: the stats are None, a counter
\* holds a str, or a row lacks a verdict that is read for every row
ArgumentsFaulty ==
    LET rows == scored_args[1]
        st == scored_args[2]
    IN \/ st = NoStats
       \/ "str_valued" \in DOMAIN st
       \/ \E i \in 1..Len(rows) :
              {"Background", "Text", "Animations"} \ DOMAIN rows[i] # {}

\* C16: a call of calculate_conformance_percentage never ends in an
\* exception; on arguments it cannot score it returns None, and what it
\* returns is None or a report with every field.
C16_ScorerNeverRaises ==
    scored_args # NoArgs =>
        /\ ~call_raised
        /\ ArgumentsFaulty => report = NoReport
        /\ report # NoReport => DOMAIN report = ReportFields

\* the case of C16: a call on a row without its text verdict returned None
C16_Witness ==
    /\ scored_args # NoArgs
    /\ \E i \in 1..Len(scored_args[1]) : "Text" \notin DOMAIN scored_args[1][i]
    /\ report = NoReport /\ ~call_raised

----------------------------------------------------------------------------
(* Claims about failures of the analysis run *)

\* the last analysis call could not open the document, resolved no slide, or
\* came to a slide it could not read
RunFailed ==
    \/ deck = Unopenable
    \/ LET slides == parse_slides_range(last_range, Len(deck)).slides
       IN \/ slides = <<>>
          \/ \E k \in 1..Len(slides) : Len(deck) = 0 \/ IsBroken(SlideAt(deck, slides[k]))

\* C17: analyze_selected_slides never ends in an exception, and a call that
\* cannot open the document, resolves no slide or fails at a step returns the
\* empty pair: no rows and empty stats.
C17_AnalysisNeverRaises ==
    calls > 0 =>
        /\ ~call_raised
        /\ RunFailed => (ret_rows = <<>> /\ ret_stats = EmptyStats)

\* the case of C17: a run that failed after it had made the row of a slide
C17_Witness ==
    /\ calls = 1 /\ ~call_raised
    /\ results # <<>>
    /\ ret_rows = <<>> /\ ret_stats = EmptyStats

----------------------------------------------------------------------------
(* check_images_enhanced on its own: one call on a slide of pictures and   *)
(* shapes with text, with and without pytesseract                          *)

MaxPictures == 2
MaxAutoShapes == 2      \* filled shapes on a slide of the background inspector
MaxTokens == 2          \* colour tokens in the markup of a slide
MaxTextShapes == 2

\* pictures: one at the origin, one beside it, one too small for OCR, with
\* what the OCR passes find in them
PictureKinds ==
    { Picture(0, 0, 100, 100, NoBestText),
      Picture(0, 0, 100, 100, ReadableText(41, 80, "Tesseract_PSM6_rus+eng")),
      \* a best pass below the confidence floor
      Picture(0, 0, 100, 100, ReadableText(41, 30, "Tesseract_PSM3_rus+eng")),
      \* a best pass whose text is_meaningful_text rejects
      Picture(0, 0, 100, 100,
              [text_len |-> 12, confidence |-> 90, method |-> "Tesseract_PSM11_rus+eng",
               meaningful |-> FALSE]),
      Picture(200, 0, 100, 100, NoBestText),
      Picture(200, 0, 100, 100, ReadableText(59, 60, "Tesseract_PSM3_rus+eng")),
      Picture(200, 0, 100, 100, ReadableText(59, 80, "Tesseract_PSM3_rus+eng")),
      Picture(0, 0, 40, 40, ReadableText(41, 80, "Tesseract_PSM6_rus+eng")) }

\* shapes with text: a caption inside the first picture, a text of two
\* characters there, a shape that touches both pictures along an edge, a
\* shape that reaches into the second picture, a shape away from both
TextShapeKinds ==
    { TextShape(10, 10, 50, 20, 5),
      TextShape(10, 10, 50, 20, 2),
      TextShape(100, 0, 100, 20, 5),
      TextShape(150, 50, 100, 20, 3),
      TextShape(300, 300, 50, 20, 5) }

RECURSIVE SeqsUpTo(_, _)
SeqsUpTo(S, n) ==
    IF n = 0 THEN {<<>>}
    ELSE SeqsUpTo(S, n - 1)
         \cup {Append(q, x) : q \in {r \in SeqsUpTo(S, n - 1) : Len(r) = n - 1}, x \in S}

\* a slide of seven pictures, the last of them with text that OCR reads
GallerySlide ==
    [pictures |-> [k \in 1..7 |->
                      Picture(50 * (k - 1), 0, 50, 50,
                              IF k = 7 THEN ReadableText(41, 80, "Tesseract_PSM6_rus+eng")
                              ELSE NoBestText)],
     text_shapes |-> <<>>]

ImageSlides ==
    [pictures : SeqsUpTo(PictureKinds, MaxPictures),
     text_shapes : SeqsUpTo(TextShapeKinds, MaxTextShapes)]
    \cup {GallerySlide}

ImagesInit ==
    /\ ParseIdle
    /\ deck = <<>>
    /\ FreshAnalyzer
    /\ FreshCaller
    /\ TESSERACT_AVAILABLE \in BOOLEAN
    /\ img_slide \in ImageSlides
    /\ img_out = NotCalled

\* has_text_on_images, image_count, ocr_data = self.check_images_enhanced(slide)
CheckImagesEnhanced ==
    /\ img_out = NotCalled
    /\ img_out' = [called |-> TRUE, returned |-> check_images_enhanced(img_slide)]
    /\ UNCHANGED <<parse_vars, deck, analyzer_vars, calls, caller_vars,
                   TESSERACT_AVAILABLE, img_slide>>

ImagesNext == CheckImagesEnhanced

SpecImages == ImagesInit /\ [][ImagesNext]_vars

----------------------------------------------------------------------------
(* Claims about the text-on-image detector *)

ImagesChecked == img_out # NotCalled

\* the boxes of a shape with text and of a picture intersect on both axes
BoxesIntersect(t, p) ==
    /\ t.left < p.left + p.width /\ p.left < t.left + t.width
    /\ t.top < p.top + p.height /\ p.top < t.top + t.height

\* some shape with at least 3 characters of text intersects some picture
GeometricOverlap(slide) ==
    \E t \in 1..Len(slide.text_shapes) :
        /\ text_len(text_strip(slide.text_shapes[t].text)) >= 3
        /\ \E i \in 1..Len(slide.pictures) :
               BoxesIntersect(slide.text_shapes[t], slide.pictures[i])

NoOcrPayload == img_out.returned.ocr_data.text_len = 0

\* C18: without pytesseract the verdict of a slide is the geometric flag
\* alone: true exactly when a shape with at least 3 characters of text
\* intersects a picture on both axes, with no OCR text and with the number of
\* the slide's pictures as the image count.
C18_GeometricVerdictWithoutOcr ==
    (ImagesChecked /\ ~TESSERACT_AVAILABLE) =>
        /\ img_out.returned.has_text_on_images = GeometricOverlap(img_slide)
        /\ NoOcrPayload
        /\ img_out.returned.image_count = Len(img_slide.pictures)

\* C19: on a slide where no shape with text overlaps a picture, OCR runs on
\* no image, the verdict is false, the image count is the number of pictures
\* and there is no OCR text, with or without pytesseract.
C19_NoOverlapNoOcr ==
    (ImagesChecked /\ ~GeometricOverlap(img_slide)) =>
        /\ img_out.returned.ocr_on = {}
        /\ ~img_out.returned.has_text_on_images
        /\ img_out.returned.image_count = Len(img_slide.pictures)
        /\ NoOcrPayload

\* OCR gave no text for the slide: pytesseract is missing, or no picture has
\* a best pass that is above the floor and meaningful
NoOcrOutcome ==
    \/ ~TESSERACT_AVAILABLE
    \/ \A i \in 1..Len(img_slide.pictures) :
           LET p == img_slide.pictures[i]
           IN \/ p.width < 50 \/ p.height < 50
              \/ ~p.ocr.meaningful
              \/ p.ocr.confidence <= 35

\* C20: on a slide with a geometric overlap the verdict is true whatever OCR
\* gives, and when OCR gives nothing the verdict is true with no OCR text.
C20_OverlapStandsWhateverOcr ==
    (ImagesChecked /\ GeometricOverlap(img_slide)) =>
        /\ img_out.returned.has_text_on_images
        /\ NoOcrOutcome => NoOcrPayload

----------------------------------------------------------------------------
(* The background inspector on its own: check_background_comprehensive on  *)
(* a slide drawn from backgrounds, filled shapes and markup tokens.         *)

BackgroundKinds ==
    { Fill(1, White), Fill(1, Blue), Fill(0, White), Fill(3, White), Fill(5, White) }

AutoShapeKinds ==
    { \* covers the slide
      AutoShape(0, 0, 400, 300, Fill(1, Blue)),
      AutoShape(0, 0, 400, 300, Fill(1, White)),
      AutoShape(0, 0, 400, 300, Fill(3, Blue)),
      AutoShape(0, 0, 400, 300, UnreadableFill),
      \* exactly seven tenths of the slide, and a small shape
      AutoShape(0, 0, 400, 210, Fill(1, Blue)),
      AutoShape(0, 0, 100, 100, Fill(1, Blue)) }

TokenKinds ==
    { HexToken(<<"f", "f", "f", "f", "f", "f">>),
      HexToken(<<"F", "F", "0", "0", "0", "0">>),
      HexToken(<<"f", "0", "0">>),
      HexToken(<<"f", "f", "f", "f", "f", "f", "0", "0">>),
      RgbToken(255, 255, 255),
      RgbToken(255, 0, 0) }

BackgroundSlides ==
    [background : BackgroundKinds,
     autoshapes : SeqsUpTo(AutoShapeKinds, MaxAutoShapes),
     markup : SeqsUpTo(TokenKinds, MaxTokens),
     faults : SUBSET {"background", "shapes", "xml"}]

BackgroundInit ==
    /\ ParseIdle
    /\ deck = <<>>
    /\ FreshAnalyzer
    /\ FreshCaller
    /\ TESSERACT_AVAILABLE = TRUE
    /\ img_slide \in BackgroundSlides
    /\ img_out = NotCalled

\* if not self.check_background_comprehensive(slide):
CheckBackgroundComprehensive ==
    /\ img_out = NotCalled
    /\ img_out' = [called |-> TRUE, returned |-> check_background_comprehensive(img_slide)]
    /\ UNCHANGED <<parse_vars, deck, analyzer_vars, calls, caller_vars,
                   TESSERACT_AVAILABLE, img_slide>>

BackgroundNext == CheckBackgroundComprehensive

SpecBackground == BackgroundInit /\ [][BackgroundNext]_vars

----------------------------------------------------------------------------
(* Claims about the background inspector *)

BackgroundChecked == img_out # NotCalled

\* nothing raises on the slide
NothingRaises(slide) ==
    /\ slide.faults = {}
    /\ \A i \in 1..Len(slide.autoshapes) : ~slide.autoshapes[i].fill.raises

\* the three violations as the contract words them
SolidNonWhiteBackground(slide) ==
    slide.background.type = 1 /\ slide.background.rgb # White

LargeSolidNonWhiteShape(slide) ==
    \E i \in 1..Len(slide.autoshapes) :
        LET shape == slide.autoshapes[i]
        IN /\ 10 * shape.width * shape.height > 7 * 400 * 300
           /\ ~shape.fill.raises
           /\ shape.fill.type = 1
           /\ shape.fill.rgb # White

\* a token of six hexadecimal digits, or of eight that are white with the
\* transparency of the variant, that is not ffffff
OtherHexToken(slide) ==
    \E i \in 1..Len(slide.markup) :
        LET token == slide.markup[i]
        IN /\ token.kind = "hex"
           /\ Len(token.digits) \in {6, 8}
           /\ SubSeq(lower(token.digits), 1, 6) # <<"f", "f", "f", "f", "f", "f">>

\* C21: the inspector passes a slide exactly when its background is not a
\* solid non-white fill, no shape over 70% of the slide has a solid non-white
\* fill and the markup has no six-digit hex token other than #ffffff.
C21_PassIffNoColourViolation ==
    (BackgroundChecked /\ NothingRaises(img_slide)) =>
        (img_out.returned <=>
            ~(\/ SolidNonWhiteBackground(img_slide)
              \/ LargeSolidNonWhiteShape(img_slide)
              \/ OtherHexToken(img_slide)))

\* the checks that ran to their end, and whether one of them found a
\* violation
CompletedCheckFailed(slide) ==
    \/ ~("background" \in slide.faults) /\ background_fill_fails(slide)
    \/ ~("shapes" \in slide.faults) /\ large_shape_fails(slide)
    \/ ~("xml" \in slide.faults) /\ markup_fails(slide)

\* C22: when one of the three checks raises, that check counts as passed: the
\* inspector fails the slide only if a check that completed found a violation.
C22_RaisingCheckPasses ==
    (BackgroundChecked /\ img_slide.faults # {}) =>
        (img_out.returned <=> ~CompletedCheckFailed(img_slide))

----------------------------------------------------------------------------
(* The text volume inspector on its own: check_text_improved on a slide     *)
(* drawn from shapes with texts around the limit of 1000 characters.        *)

TextFrame(text) ==
    [left |-> 0, top |-> 0, width |-> 400, height |-> 100, text |-> text]

TextKinds ==
    { <<>>,
      <<Blank(3)>>,
      <<Letters(1)>>,
      <<Blank(2), Letters(1), Blank(1)>>,
      <<Letters(2)>>,
      <<Letters(500)>>,
      <<Letters(3), Blank(1), Blank(2), Letters(3)>>,
      <<Letters(998), Blank(1), Letters(1)>>,
      <<Letters(998), Blank(3), Letters(1)>>,
      <<Blank(1), Letters(998), Blank(2), Letters(2), Blank(4)>> }

TextSlides ==
    [text_shapes : SeqsUpTo({TextFrame(text) : text \in TextKinds}, MaxTextShapes),
     faults : {{}, {"shapes"}}]

TextInit ==
    /\ ParseIdle
    /\ deck = <<>>
    /\ FreshAnalyzer
    /\ FreshCaller
    /\ TESSERACT_AVAILABLE = TRUE
    /\ img_slide \in TextSlides
    /\ img_out = NotCalled

\* text_overload, char_count = self.check_text_improved(slide)
CheckTextImproved ==
    /\ img_out = NotCalled
    /\ img_out' = [called |-> TRUE, returned |-> check_text_improved(img_slide)]
    /\ UNCHANGED <<parse_vars, deck, analyzer_vars, calls, caller_vars,
                   TESSERACT_AVAILABLE, img_slide>>

TextNext == CheckTextImproved

SpecText == TextInit /\ [][TextNext]_vars

----------------------------------------------------------------------------
(* Claims about the text volume inspector *)

TextChecked == img_out # NotCalled

RECURSIVE SumOver(_, _)
SumOver(f, S) ==
    IF S = {} THEN 0
    ELSE LET x == CHOOSE y \in S : TRUE IN f[x] + SumOver(f, S \ {x})

\* the runs of a text from its first to its last character that is no
\* whitespace
Inner(text) ==
    LET letters == {i \in 1..Len(text) : ~text[i].space}
    IN IF letters = {} THEN {}
       ELSE { i \in 1..Len(text) : (\E a \in letters : a <= i) /\ (\E b \in letters : i <= b) }

TrimmedLength(text) == SumOver([i \in 1..Len(text) |-> text[i].len], Inner(text))

\* the trimmed text with one space for every stretch of whitespace: its
\* other characters, and one for every stretch
CollapsedLength(text) ==
    SumOver([i \in 1..Len(text) |->
                IF ~text[i].space THEN text[i].len
                ELSE IF text[i - 1].space THEN 0 ELSE 1],
            Inner(text))

CollapsedSum(slide) ==
    SumOver([k \in 1..Len(slide.text_shapes) |->
                IF TrimmedLength(slide.text_shapes[k].text) > 1
                THEN CollapsedLength(slide.text_shapes[k].text) ELSE 0],
            1..Len(slide.text_shapes))

\* the slide with every whitespace run one character longer
Stretched(slide) ==
    [slide EXCEPT !.text_shapes =
        [k \in 1..Len(slide.text_shapes) |->
            [slide.text_shapes[k] EXCEPT !.text =
                [i \in 1..Len(@) |-> IF @[i].space THEN Blank(@[i].len + 1) ELSE @[i]]]]]

----------------------------------------------------------------------------
(* Claims about the transition flag of the deck *)

\* the document without its transition markers
NoTransitions(d) ==
    IF d = Unopenable THEN d
    ELSE [i \in 1..Len(d) |-> [d[i] EXCEPT !.transition = FALSE]]

\* a call of analyze_selected_slides that returned rows
AnalysisReturnedRows == calls' = calls + 1 /\ ~call_raised' /\ ret_rows' # <<>>

\* a call of the scorer on what the analysis returned, which gave a report
ScoredTheAnalysis ==
    /\ UNCHANGED <<calls, analyzer_vars, ret_rows, ret_stats>>
    /\ scored_args' = <<ret_rows, ret_stats>>
    /\ ~call_raised'
    /\ report' # NoReport

\* C24: the transition flag of the stats is true exactly when some slide of
\* the whole document carries a transition marker; a true flag makes the
\* transition score 0 instead of 10, and neither the rows nor the
\* whole-slide compliance depend on the markers or on the flag.
C24_TransitionFlagIsDeckLevel ==
    [][ /\ AnalysisReturnedRows =>
            /\ ret_stats'.has_transitions <=> (\E i \in 1..Len(deck) : deck[i].transition)
            /\ ret_rows' = analyze_selected_slides(Self, NoTransitions(deck), last_range').rows
        /\ ScoredTheAnalysis =>
            /\ report'.criteria_details.transitions.score =
                   (IF ret_stats.has_transitions THEN 0 ELSE 100)
            /\ LET other == calculate_conformance_percentage(
                                Self, ret_rows, [ret_stats EXCEPT !.has_transitions = ~@])
               IN /\ other.criteria_details.slide_compliance =
                         report'.criteria_details.slide_compliance
                  /\ other.compliant_slides = report'.compliant_slides ]_vars

\* the only slide with a transition marker lies outside the selection: the
\* flag is set, the transition score is 0, and the row of the analyzed slide
\* is in order
C24_Witness ==
    /\ report # NoReport
    /\ scored_args = <<ret_rows, ret_stats>>
    /\ ret_rows # <<>>
    /\ ret_stats.has_transitions
    /\ \A k \in 1..Len(ret_rows) : ~SlideAt(deck, ret_rows[k].Slide).transition
    /\ report.criteria_details.transitions.score = 0
    /\ \E k \in 1..Len(ret_rows) : ret_rows[k].Status = StatusOK

----------------------------------------------------------------------------
(* Claims about the breakdown by criterion *)

\* t tenths is num / den rounded to one decimal
IsRoundedToTenth(t, num, den) ==
    LET diff == 10 * num - t * den
    IN 2 * (IF diff < 0 THEN -diff ELSE diff) <= den

RowsFailing(rows, field) == Cardinality({k \in 1..Len(rows) : rows[k][field] = CrossMark})

\* the entry of a proportional criterion gives the count of violating slides,
\* the score (N - violating) / N x weight to one decimal, and the message
\* names the count
ProportionalEntry(entry, violating, weight, before, after) ==
    LET N == Len(scored_args[1])
    IN /\ entry.issues = violating
       /\ entry.total = N
       /\ IsRoundedToTenth(entry.score, (N - violating) * weight, N)
       /\ violating > 0 =>
              before \o ToString(violating) \o after \in SeqToSet(report.recommendations)

\* C25: in the breakdown every proportional criterion scores
\* (N - violating slides) / N x weight rounded to one decimal, and its
\* recommendation cites the count of violating slides.
C25_BreakdownScoresAndCounts ==
    (report # NoReport /\ scored_args[1] # <<>>) =>
        LET rows == scored_args[1]
            st == scored_args[2]
            details == report.criteria_details
        IN /\ ProportionalEntry(details.background, st.background_issues, 15,
                                "Ispravte fon na ", " slajdah")
           /\ ProportionalEntry(details.text_overload, RowsFailing(rows, "Text"), 10,
                                "Umenshite tekst na ", " slajdah")
           /\ ProportionalEntry(details.text_on_images, st.text_on_images, 15,
                                "Uberite tekst s izobrazhenij na ", " slajdah")
           /\ ProportionalEntry(details.animations, RowsFailing(rows, "Animations"), 15,
                                "Udalite animacii s ", " slajdov")

\* three analyzed slides, one with a background violation and one with too
\* much text: 10.0 for the background, 6.7 for the text, and both messages
\* cite 1 slide
C25_Witness ==
    /\ report # NoReport
    /\ Len(scored_args[1]) = 3
    /\ RowsFailing(scored_args[1], "Background") = 1
    /\ scored_args[2].background_issues = 1
    /\ RowsFailing(scored_args[1], "Text") = 1
    /\ report.criteria_details.background.score = 100
    /\ report.criteria_details.text_overload.score = 67
    /\ "Ispravte fon na 1 slajdah" \in SeqToSet(report.recommendations)
    /\ "Umenshite tekst na 1 slajdah" \in SeqToSet(report.recommendations)

----------------------------------------------------------------------------
(* Claims about the images that OCR reads *)

\* C26: OCR is attempted on at most 6 images of a slide, the first in the
\* order of the slide, and on no image smaller than 50 by 50; an image after
\* the sixth is never handed to the OCR passes.
C26_OcrOnAtMostSixImages ==
    ImagesChecked =>
        /\ Cardinality(img_out.returned.ocr_on) <= 6
        /\ \A k \in img_out.returned.ocr_on :
               /\ k <= 6
               /\ img_slide.pictures[k].width >= 50
               /\ img_slide.pictures[k].height >= 50

\* the images that contribute: OCR ran on them, their best pass is
\* meaningful and its confidence is above 35
Contributing(slide) ==
    { k \in 1..Len(slide.pictures) :
        LET p == slide.pictures[k]
        IN /\ TESSERACT_AVAILABLE
           /\ p.width >= 50 /\ p.height >= 50
           /\ p.ocr.text_len > 0 /\ p.ocr.meaningful /\ p.ocr.confidence > 35 }

\* the contributing image with the highest confidence, the first of them
BestContributor(slide) ==
    CHOOSE k \in Contributing(slide) :
        \A j \in Contributing(slide) :
            \/ slide.pictures[j].ocr.confidence < slide.pictures[k].ocr.confidence
            \/ slide.pictures[j].ocr.confidence = slide.pictures[k].ocr.confidence /\ k <= j

\* C27: the merged OCR result holds the texts of the contributing images in
\* the order of the slide, the mean of their confidences, the method of the
\* contributing image with the highest confidence (the first on a tie) and
\* their number; an image contributes only with a meaningful best result of
\* confidence above 35.
C27_MergedOcrResult ==
    (ImagesChecked /\ Contributing(img_slide) # {}) =>
        LET out == img_out.returned
            by == Contributing(img_slide)
        IN /\ out.ocr_parts = SortedOfSet(by)
           /\ out.ocr_data.confidence.num * Cardinality(by)
                  = out.ocr_data.confidence.den
                      * SumOver([k \in by |-> img_slide.pictures[k].ocr.confidence], by)
           /\ out.ocr_data.method = img_slide.pictures[BestContributor(img_slide)].ocr.method
           /\ out.ocr_data.images_with_text = Cardinality(by)

\* two images contribute with the same confidence and different methods
C27_Witness ==
    /\ ImagesChecked
    /\ Cardinality(Contributing(img_slide)) = 2
    /\ \A k \in Contributing(img_slide) : img_slide.pictures[k].ocr.confidence = 80
    /\ img_slide.pictures[1].ocr.method # img_slide.pictures[2].ocr.method
    /\ img_out.returned.ocr_data.method = img_slide.pictures[1].ocr.method

----------------------------------------------------------------------------
(* Claims about the rows and the stats that analyze_selected_slides returns *)

\* C28: a call that returns rows returns one row per resolved slide index,
\* in ascending order of the index with no index twice, as many rows as the
\* stats' selected_slides_count; no row of an earlier call is among them.
C28_OneRowPerResolvedSlide ==
    ret_rows # <<>> =>
        /\ Len(ret_rows) = ret_stats.selected_slides_count
        /\ \A i, j \in 1..Len(ret_rows) : i < j => ret_rows[i].Slide < ret_rows[j].Slide

\* C29: the counters of the stats agree with the returned rows:
\* background_issues is the number of rows with a failing background,
\* text_on_images the number of rows with text on an image, total_images the
\* sum of the rows' image counts, and has_animations says that some row has
\* a failing animation verdict.
C29_CountersAgreeWithRows ==
    ret_rows # <<>> =>
        /\ ret_stats.background_issues = RowsFailing(ret_rows, "Background")
        /\ ret_stats.text_on_images
               = Cardinality({k \in 1..Len(ret_rows) : ret_rows[k].TextOnImage = Da})
        /\ ret_stats.total_images
               = SumOver([k \in 1..Len(ret_rows) |-> ret_rows[k].Images], 1..Len(ret_rows))
        /\ ret_stats.has_animations <=> RowsFailing(ret_rows, "Animations") > 0

\* the font tags of a row
FontTags(result) ==
    { k \in 1..Len(result.Violations) :
        \E n \in 0..(MaxSlides * MaxFonts) :
            result.Violations[k] = "SHRIFTY(" \o ToString(n) \o ")" }

\* C30: however often analyze_fonts runs over the rows of an analyzer, no
\* row holds more than one font tag, and the font verdict of a row fails
\* exactly when the row holds a font tag.
C30_AtMostOneFontTag ==
    \A i \in 1..Len(results) :
        /\ Cardinality(FontTags(results[i])) <= 1
        /\ results[i].Fonts = CrossMark <=> FontTags(results[i]) # {}

====
